---- MODULE Spec2Model ----
(***************************************************************************)
(* The code-change review pipeline of draagon_forge.agents.code_review:    *)
(* FileClassifier (file_classifier.py), DiffChunker (chunker.py),          *)
(* GitDiffParser (git_diff.py) and CodeReviewAgent (agent.py).             *)
(*                                                                         *)
(* Paths, diff texts and hunk contents are strings; the regular            *)
(* expressions of the source are kept as syntax trees and matched by the   *)
(* operators of the first section.                                         *)
(***************************************************************************)
EXTENDS Integers, Sequences, FiniteSets, TLC

(***************************************************************************)
(* Strings and Python's re module                                          *)
(***************************************************************************)

LowerMap ==
  ("A" :> "a") @@ ("B" :> "b") @@ ("C" :> "c") @@ ("D" :> "d") @@ ("E" :> "e") @@ ("F" :> "f") @@ ("G" :> "g") @@ ("H" :> "h") @@ ("I" :> "i") @@ ("J" :> "j") @@ ("K" :> "k") @@ ("L" :> "l") @@ ("M" :> "m") @@ ("N" :> "n") @@ ("O" :> "o") @@ ("P" :> "p") @@ ("Q" :> "q") @@ ("R" :> "r") @@ ("S" :> "s") @@ ("T" :> "t") @@ ("U" :> "u") @@ ("V" :> "v") @@ ("W" :> "w") @@ ("X" :> "x") @@ ("Y" :> "y") @@ ("Z" :> "z")

WordChars ==
  {"a", "b", "c", "d", "e", "f", "g", "h", "i", "j", "k", "l", "m", "n", "o", "p", "q", "r", "s", "t", "u", "v", "w", "x", "y", "z", "A", "B", "C", "D", "E", "F", "G", "H", "I", "J", "K", "L", "M", "N", "O", "P", "Q", "R", "S", "T", "U", "V", "W", "X", "Y", "Z", "0", "1", "2", "3", "4", "5", "6", "7", "8", "9", "_"}

DigitChars ==
  {"0", "1", "2", "3", "4", "5", "6", "7", "8", "9"}

SpaceChars ==
  {" ", "\t", "\n", "\r", "\f"}

\* s[i] of a Python string (1-based here), "" when i is out of range
CharAt(s, i) ==
  IF i >= 1 /\ i <= Len(s) THEN SubSeq(s, i, i) ELSE ""

RECURSIVE Lower(_)
\* str.lower(), by halves
Lower(s) ==
  IF Len(s) = 0 THEN ""
  ELSE IF Len(s) = 1 THEN (IF s \in DOMAIN LowerMap THEN LowerMap[s] ELSE s)
  ELSE Lower(SubSeq(s, 1, Len(s) \div 2)) \o Lower(SubSeq(s, Len(s) \div 2 + 1, Len(s)))

\* str.startswith(prefix)
StartsWith(s, prefix) ==
  Len(prefix) <= Len(s) /\ SubSeq(s, 1, Len(prefix)) = prefix

\* str.endswith(suffix)
EndsWith(s, suffix) ==
  Len(suffix) <= Len(s) /\ SubSeq(s, Len(s) - Len(suffix) + 1, Len(s)) = suffix

\* sub in s
Contains(s, sub) ==
  \E i \in 1..(Len(s) - Len(sub) + 1) : SubSeq(s, i, i + Len(sub) - 1) = sub

\* Syntax trees of regular expressions
Lit(str) == [t |-> "lit", s |-> str]
Cat(parts) == [t |-> "cat", rs |-> parts]
Alt(parts) == [t |-> "alt", rs |-> parts]
Opt(re) == [t |-> "opt", r |-> re]
Star(re) == [t |-> "star", r |-> re]
Plus(re) == [t |-> "plus", r |-> re]
OneOf(chars) == [t |-> "oneof", s |-> chars]
Space == [t |-> "space"]
Word == [t |-> "word"]
Digit == [t |-> "digit"]
Dot == [t |-> "dot"]
Bol == [t |-> "bol"]
Eol == [t |-> "eol"]

\* re flags: i = re.IGNORECASE (the subject is lowered by the caller), m = re.MULTILINE
ReFlags(ignorecase, multiline) == [i |-> ignorecase, m |-> multiline]

RECURSIVE reMatch(_, _, _, _), reCat(_, _, _, _, _), reStar(_, _, _, _, _)
\* The set of positions j such that re matches s[i..j-1]
reMatch(re, s, i, fl) ==
  CASE re.t = "lit" ->
         LET lit == IF fl.i THEN Lower(re.s) ELSE re.s
             j == i + Len(lit)
         IN IF j <= Len(s) + 1 /\ SubSeq(s, i, j - 1) = lit THEN {j} ELSE {}
    [] re.t = "oneof" ->
         IF i <= Len(s) /\ Contains(re.s, CharAt(s, i)) THEN {i + 1} ELSE {}
    [] re.t = "space" ->
         IF CharAt(s, i) \in SpaceChars THEN {i + 1} ELSE {}
    [] re.t = "word" ->
         IF CharAt(s, i) \in WordChars THEN {i + 1} ELSE {}
    [] re.t = "digit" ->
         IF CharAt(s, i) \in DigitChars THEN {i + 1} ELSE {}
    [] re.t = "dot" ->
         IF i <= Len(s) /\ CharAt(s, i) # "\n" THEN {i + 1} ELSE {}
    [] re.t = "bol" ->
         IF i = 1 \/ (fl.m /\ CharAt(s, i - 1) = "\n") THEN {i} ELSE {}
    [] re.t = "eol" ->
         IF i = Len(s) + 1 \/ (CharAt(s, i) = "\n" /\ (fl.m \/ i = Len(s))) THEN {i} ELSE {}
    [] re.t = "cat" -> reCat(re.rs, 1, s, {i}, fl)
    [] re.t = "alt" -> UNION {reMatch(re.rs[k], s, i, fl) : k \in DOMAIN re.rs}
    [] re.t = "opt" -> {i} \cup reMatch(re.r, s, i, fl)
    [] re.t = "star" -> reStar(re.r, s, {i}, {i}, fl)
    [] re.t = "plus" ->
         LET first == reMatch(re.r, s, i, fl) IN reStar(re.r, s, first, first, fl)

reCat(rs, k, s, from, fl) ==
  IF k > Len(rs) \/ from = {} THEN from
  ELSE reCat(rs, k + 1, s, UNION {reMatch(rs[k], s, p, fl) : p \in from}, fl)

reStar(re, s, frontier, seen, fl) ==
  LET more == UNION {reMatch(re, s, p, fl) : p \in frontier} \ seen
  IN IF more = {} THEN seen ELSE reStar(re, s, more, seen \cup more, fl)

\* re.compile(p, flags).search(s)
re_search(re, fl, s) ==
  LET subject == IF fl.i THEN Lower(s) ELSE s
  IN \E i \in 1..(Len(s) + 1) : reMatch(re, subject, i, fl) # {}

\* re.compile(p, flags).match(s)
re_match(re, fl, s) ==
  LET subject == IF fl.i THEN Lower(s) ELSE s
  IN reMatch(re, subject, 1, fl) # {}

\* any(p.search(s) for p in patterns)
AnySearch(patterns, fl, s) ==
  \E k \in DOMAIN patterns : re_search(patterns[k], fl, s)

(***************************************************************************)
(* models.py                                                               *)
(***************************************************************************)

FileClassification == {"critical", "important", "minor", "noise"}

IssueSeverity == {"blocking", "warning", "suggestion"}

ReviewMode == {"staged", "unstaged", "branch", "auto"}

\* FileDiff.total_lines_changed
total_lines_changed(d) == d.lines_added + d.lines_deleted

\* a FileDiff as the tests' make_diff builds it
make_diff(path, added, deleted, binary) ==
  [path |-> path, old_path |-> "", status |-> "modified", hunks |-> <<>>,
   lines_added |-> added, lines_deleted |-> deleted, is_binary |-> binary, raw_diff |-> ""]

\* a FileDiff with its defaults
NoDiff == make_diff("", 0, 0, FALSE)

(***************************************************************************)
(* file_classifier.py                                                      *)
(***************************************************************************)

CRITICAL_PATHS ==
  <<
    Cat(<<Alt(<<Bol, Lit("/")>>), Lit("auth/")>>),  \* (^|/)auth/
    Cat(<<Alt(<<Bol, Lit("/")>>), Lit("authentication/")>>),  \* (^|/)authentication/
    Cat(<<Alt(<<Bol, Lit("/")>>), Lit("crypto/")>>),  \* (^|/)crypto/
    Cat(<<Alt(<<Bol, Lit("/")>>), Lit("security/")>>),  \* (^|/)security/
    Cat(<<Alt(<<Bol, Lit("/")>>), Lit("secrets/")>>),  \* (^|/)secrets/
    Cat(<<Alt(<<Bol, Lit("/")>>), Lit("password")>>),  \* (^|/)password
    Cat(<<Alt(<<Bol, Lit("/")>>), Lit("credentials")>>),  \* (^|/)credentials
    Cat(<<Alt(<<Bol, Lit("/")>>), Lit("oauth")>>),  \* (^|/)oauth
    Cat(<<Alt(<<Bol, Lit("/")>>), Lit("jwt")>>),  \* (^|/)jwt
    Cat(<<Alt(<<Bol, Lit("/")>>), Lit("api"), Opt(OneOf("-_")), Lit("key")>>)  \* (^|/)api[-_]?key
  >>

CRITICAL_FILES ==
  <<
    Cat(<<Lit(".env"), Opt(Cat(<<Lit("."), Plus(Dot)>>)), Eol>>),  \* \.env(\..+)?$
    Cat(<<Lit("config."), Alt(<<Lit("py"), Lit("ts"), Lit("js"), Lit("json"), Lit("yaml"), Lit("yml")>>), Eol>>),  \* config\.(py|ts|js|json|yaml|yml)$
    Cat(<<Lit("settings."), Alt(<<Lit("py"), Lit("ts"), Lit("js"), Lit("json"), Lit("yaml"), Lit("yml")>>), Eol>>),  \* settings\.(py|ts|js|json|yaml|yml)$
    Cat(<<Lit("secrets."), Alt(<<Lit("py"), Lit("ts"), Lit("js"), Lit("json"), Lit("yaml"), Lit("yml")>>), Eol>>),  \* secrets\.(py|ts|js|json|yaml|yml)$
    Cat(<<Lit("credentials."), Alt(<<Lit("py"), Lit("ts"), Lit("js"), Lit("json"), Lit("yaml"), Lit("yml")>>), Eol>>),  \* credentials\.(py|ts|js|json|yaml|yml)$
    Cat(<<Lit("package.json"), Eol>>),  \* package\.json$
    Cat(<<Lit("pyproject.toml"), Eol>>),  \* pyproject\.toml$
    Cat(<<Lit("requirements.txt"), Eol>>),  \* requirements\.txt$
    Cat(<<Lit("Gemfile"), Eol>>),  \* Gemfile$
    Cat(<<Lit("Cargo.toml"), Eol>>),  \* Cargo\.toml$
    Cat(<<Lit("go.mod"), Eol>>),  \* go\.mod$
    Cat(<<Lit("docker-compose.y"), Opt(Lit("a")), Lit("ml"), Eol>>),  \* docker-compose\.ya?ml$
    Cat(<<Lit("Dockerfile"), Eol>>)  \* Dockerfile$
  >>

NOISE_PATTERNS ==
  <<
    Cat(<<Lit(".lock"), Eol>>),  \* \.lock$
    Cat(<<Lit("lock.json"), Eol>>),  \* lock\.json$
    Cat(<<Lit(".min."), Alt(<<Lit("js"), Lit("css")>>), Eol>>),  \* \.min\.(js|css)$
    Cat(<<Alt(<<Bol, Lit("/")>>), Lit("dist/")>>),  \* (^|/)dist/
    Cat(<<Alt(<<Bol, Lit("/")>>), Lit("build/")>>),  \* (^|/)build/
    Cat(<<Alt(<<Bol, Lit("/")>>), Lit("node_modules/")>>),  \* (^|/)node_modules/
    Cat(<<Alt(<<Bol, Lit("/")>>), Lit("vendor/")>>),  \* (^|/)vendor/
    Cat(<<Alt(<<Bol, Lit("/")>>), Lit(".git/")>>),  \* (^|/)\.git/
    Cat(<<Alt(<<Bol, Lit("/")>>), Lit("__pycache__/")>>),  \* (^|/)__pycache__/
    Cat(<<Lit(".pyc"), Eol>>),  \* \.pyc$
    Cat(<<Alt(<<Bol, Lit("/")>>), Lit("coverage/")>>),  \* (^|/)coverage/
    Cat(<<Lit(".map"), Eol>>),  \* \.map$
    Cat(<<Alt(<<Bol, Lit("/")>>), Lit(".next/")>>),  \* (^|/)\.next/
    Cat(<<Alt(<<Bol, Lit("/")>>), Lit(".nuxt/")>>)  \* (^|/)\.nuxt/
  >>

TEST_PATTERNS ==
  <<
    Cat(<<Alt(<<Bol, Lit("/")>>), Lit("test"), Opt(Lit("s")), Lit("/")>>),  \* (^|/)tests?/
    Cat(<<Alt(<<Bol, Lit("/")>>), Lit("__tests__/")>>),  \* (^|/)__tests__/
    Cat(<<Lit(".test."), Alt(<<Lit("ts"), Lit("tsx"), Lit("js"), Lit("jsx")>>), Eol>>),  \* \.test\.(ts|tsx|js|jsx)$
    Cat(<<Lit(".spec."), Alt(<<Lit("ts"), Lit("tsx"), Lit("js"), Lit("jsx")>>), Eol>>),  \* \.spec\.(ts|tsx|js|jsx)$
    Cat(<<Lit("_test."), Alt(<<Lit("py"), Lit("go")>>), Eol>>),  \* _test\.(py|go)$
    Cat(<<Lit("test_"), Star(Dot), Lit(".py"), Eol>>)  \* test_.*\.py$
  >>

DOC_PATTERNS ==
  <<
    Cat(<<Lit(".md"), Eol>>),  \* \.md$
    Cat(<<Lit(".rst"), Eol>>),  \* \.rst$
    Cat(<<Lit(".txt"), Eol>>),  \* \.txt$
    Cat(<<Alt(<<Bol, Lit("/")>>), Lit("doc"), Opt(Lit("s")), Lit("/")>>),  \* (^|/)docs?/
    Lit("README"),  \* README
    Lit("CHANGELOG"),  \* CHANGELOG
    Lit("LICENSE")  \* LICENSE
  >>

IMPORTANT_PATTERNS ==
  <<
    Cat(<<Alt(<<Bol, Lit("/")>>), Lit("api/")>>),  \* (^|/)api/
    Cat(<<Alt(<<Bol, Lit("/")>>), Lit("routes/")>>),  \* (^|/)routes/
    Cat(<<Alt(<<Bol, Lit("/")>>), Lit("endpoints/")>>),  \* (^|/)endpoints/
    Cat(<<Alt(<<Bol, Lit("/")>>), Lit("handlers/")>>),  \* (^|/)handlers/
    Cat(<<Alt(<<Bol, Lit("/")>>), Lit("controllers/")>>),  \* (^|/)controllers/
    Cat(<<Alt(<<Bol, Lit("/")>>), Lit("services/")>>),  \* (^|/)services/
    Cat(<<Alt(<<Bol, Lit("/")>>), Lit("models/")>>),  \* (^|/)models/
    Cat(<<Alt(<<Bol, Lit("/")>>), Lit("schemas/")>>),  \* (^|/)schemas/
    Cat(<<Alt(<<Bol, Lit("/")>>), Lit("database/")>>),  \* (^|/)database/
    Cat(<<Alt(<<Bol, Lit("/")>>), Lit("migration"), Opt(Lit("s")), Lit("/")>>)  \* (^|/)migrations?/
  >>

\* FileClassifier.__init__: the patterns are compiled with re.I
ClassifierFlags == ReFlags(TRUE, FALSE)

\* FileClassifier.__init__ defaults
important_threshold == 50

minor_threshold == 20

\* The paths of the files the specifications below draw from
KnownPaths ==
  {".env", ".env.local", "package-lock.json", "auth/yarn.lock", "vendor/config.py",
   "auth/test_login.py", "tests/settings.py", "api/README.md", "tests/api/test_u.py",
   "docs/guide.md", "src/api/users.py", "src/main.py", "Dockerfile", "requirements.txt",
   "notes.txt", "src/models/user_test.go", "Auth/Login.py", "dist/api/app.min.js",
   "auth/login.py", "src/big.py", "src/api/small.py", "logo.png", "src/fmt.py",
   "tests/test_login.py", "src/api/tiny.py"}

\* for each pattern list of the classifier: any(pattern.search(path) for pattern in list)
PathSearches(path) ==
  [noise |-> AnySearch(NOISE_PATTERNS, ClassifierFlags, path),
   critical_paths |-> AnySearch(CRITICAL_PATHS, ClassifierFlags, path),
   critical_files |-> AnySearch(CRITICAL_FILES, ClassifierFlags, path),
   tests |-> AnySearch(TEST_PATTERNS, ClassifierFlags, path),
   docs |-> AnySearch(DOC_PATTERNS, ClassifierFlags, path),
   important |-> AnySearch(IMPORTANT_PATTERNS, ClassifierFlags, path)]

\* PathSearches of the known paths, evaluated once
PathSearchesMemo ==
  [p \in KnownPaths |-> PathSearches(p)]

searches(path) ==
  IF path \in KnownPaths THEN PathSearchesMemo[path] ELSE PathSearches(path)

\* the rules of classify with the critical rules tried before the noise rules
classify_rules_critical_first(s, file_diff) ==
  LET lines_changed == total_lines_changed(file_diff)
  IN IF s.critical_paths THEN "critical"
     ELSE IF s.critical_files THEN "critical"
     ELSE IF file_diff.is_binary THEN "noise"
     ELSE IF s.noise THEN "noise"
     ELSE IF s.tests
       THEN (IF lines_changed > important_threshold THEN "important" ELSE "minor")
     ELSE IF s.docs
       THEN (IF lines_changed > important_threshold THEN "important" ELSE "minor")
     ELSE IF s.important THEN "important"
     ELSE IF lines_changed > important_threshold THEN "important"
     ELSE "minor"

\* the rules of FileClassifier.classify, s the pattern searches of the path:
\* first matching rule wins
classify_rules(s, file_diff) ==
  LET lines_changed == total_lines_changed(file_diff)
  IN IF file_diff.is_binary THEN "noise"
     ELSE IF s.noise THEN "noise"
     ELSE IF s.critical_paths THEN "critical"
     ELSE IF s.critical_files THEN "critical"
     ELSE IF s.tests
       THEN (IF lines_changed > important_threshold THEN "important" ELSE "minor")
     ELSE IF s.docs
       THEN (IF lines_changed > important_threshold THEN "important" ELSE "minor")
     ELSE IF s.important THEN "important"
     ELSE IF lines_changed > important_threshold THEN "important"
     ELSE IF lines_changed > minor_threshold THEN "minor"
     ELSE "minor"

\* FileClassifier.classify
classify(file_diff) == classify_rules(searches(file_diff.path), file_diff)

\* FileClassifier.classify_all: the files of each classification, in diff order
classify_all(diffs) ==
  [critical |-> SelectSeq(diffs, LAMBDA d : classify(d) = "critical"),
   important |-> SelectSeq(diffs, LAMBDA d : classify(d) = "important"),
   minor |-> SelectSeq(diffs, LAMBDA d : classify(d) = "minor"),
   noise |-> SelectSeq(diffs, LAMBDA d : classify(d) = "noise")]

\* Python's seq[:n]
PySliceTo(seq, n) ==
  LET stop == IF n < 0 THEN (IF Len(seq) + n < 0 THEN 0 ELSE Len(seq) + n)
              ELSE (IF n > Len(seq) THEN Len(seq) ELSE n)
  IN SubSeq(seq, 1, stop)

\* seq[n:] with a negative n taken for 0
PySliceFromNonNegative(seq, n) ==
  LET start == IF n < 0 THEN 0 ELSE (IF n > Len(seq) THEN Len(seq) ELSE n)
  IN SubSeq(seq, start + 1, Len(seq))

\* Python's seq[n:]
PySliceFrom(seq, n) ==
  LET start == IF n < 0 THEN (IF Len(seq) + n < 0 THEN 0 ELSE Len(seq) + n)
               ELSE (IF n > Len(seq) THEN Len(seq) ELSE n)
  IN SubSeq(seq, start + 1, Len(seq))

\* one step of a sort that puts d before the files with as many changed lines
InsertByLines_ties_reversed(sorted, d) ==
  LET k == Cardinality({j \in DOMAIN sorted :
                          total_lines_changed(sorted[j]) > total_lines_changed(d)})
  IN SubSeq(sorted, 1, k) \o <<d>> \o SubSeq(sorted, k + 1, Len(sorted))

\* one step of the stable sort: d goes after every file with at least as many changed lines
InsertByLines(sorted, d) ==
  LET k == Cardinality({j \in DOMAIN sorted :
                          total_lines_changed(sorted[j]) >= total_lines_changed(d)})
  IN SubSeq(sorted, 1, k) \o <<d>> \o SubSeq(sorted, k + 1, Len(sorted))

RECURSIVE SortByLinesDesc(_)
\* list.sort(key=lambda d: d.total_lines_changed, reverse=True), which is stable
SortByLinesDesc(seq) ==
  IF seq = <<>> THEN <<>>
  ELSE InsertByLines(SortByLinesDesc(SubSeq(seq, 1, Len(seq) - 1)), seq[Len(seq)])

\* FileClassifier.prioritize after classify_all: critical files first, then
\* important and minor files by size while room is left
prioritize_classified(classified, maxFiles) ==
  LET critical == classified["critical"]
      remaining1 == maxFiles - Len(critical)
      important == SortByLinesDesc(classified["important"])
      review2 == critical \o PySliceTo(important, remaining1)
      skipped2 == PySliceFrom(important, remaining1)
      remaining2 == maxFiles - Len(review2)
      minor == SortByLinesDesc(classified["minor"])
      review3 == IF remaining2 > 0 THEN review2 \o PySliceTo(minor, remaining2) ELSE review2
      skipped3 == IF remaining2 > 0 THEN skipped2 \o PySliceFrom(minor, remaining2)
                  ELSE skipped2 \o classified["minor"]
  IN [to_review |-> review3, skipped |-> skipped3 \o classified["noise"]]

\* FileClassifier.prioritize
prioritize(diffs, maxFiles) == prioritize_classified(classify_all(diffs), maxFiles)

\* the position of the k-th of the positions
KthPosition(positions, k) ==
  CHOOSE p \in positions : Cardinality({x \in positions : x <= p}) = k

\* the pieces of s between the separator positions
PiecesBetween(s, positions) ==
  [k \in 1..(Cardinality(positions) + 1) |->
     SubSeq(s, IF k = 1 THEN 1 ELSE KthPosition(positions, k - 1) + 1,
               IF k = Cardinality(positions) + 1 THEN Len(s)
               ELSE KthPosition(positions, k) - 1)]

\* str.split("\n")
SplitLines(s) ==
  PiecesBetween(s, {i \in 1..Len(s) : SubSeq(s, i, i) = "\n"})

\* line[1:].strip() is non-empty
HasCode(line) ==
  \E i \in 2..Len(line) : SubSeq(line, i, i) \notin SpaceChars

\* line.startswith("+") and not line.startswith("+++"), and the same for "-"
IsChangedLine(line) ==
  \/ StartsWith(line, "+") /\ ~StartsWith(line, "+++")
  \/ StartsWith(line, "-") /\ ~StartsWith(line, "---")

\* FileClassifier.is_formatting_only
is_formatting_only(diff) ==
  LET lines == SplitLines(diff.raw_diff)
      code_changes == Cardinality({i \in DOMAIN lines : IsChangedLine(lines[i]) /\ HasCode(lines[i])})
      whitespace_changes == Cardinality({i \in DOMAIN lines : IsChangedLine(lines[i]) /\ ~HasCode(lines[i])})
      total == code_changes + whitespace_changes
  IN IF total = 0 THEN TRUE ELSE 5 * whitespace_changes > 4 * total

(***************************************************************************)
(* chunker.py                                                              *)
(***************************************************************************)

\* DiffChunker.BOUNDARY_PATTERNS, compiled with re.MULTILINE
BOUNDARY_PATTERNS ==
  ("python" :> <<
      Cat(<<Bol, Star(Space), Opt(Cat(<<Lit("async"), Plus(Space)>>)), Lit("def"), Plus(Space), Plus(Word)>>),  \* ^\s*(async\s+)?def\s+\w+
      Cat(<<Bol, Star(Space), Lit("class"), Plus(Space), Plus(Word)>>)  \* ^\s*class\s+\w+
    >>)
  @@ ("javascript" :> <<
      Cat(<<Bol, Star(Space), Opt(Cat(<<Lit("async"), Plus(Space)>>)), Lit("function"), Plus(Space), Plus(Word)>>),  \* ^\s*(async\s+)?function\s+\w+
      Cat(<<Bol, Star(Space), Lit("class"), Plus(Space), Plus(Word)>>),  \* ^\s*class\s+\w+
      Cat(<<Bol, Star(Space), Alt(<<Lit("const"), Lit("let"), Lit("var")>>), Plus(Space), Plus(Word), Star(Space), Lit("="), Star(Space), Opt(Cat(<<Lit("async"), Plus(Space)>>)), Lit("(")>>),  \* ^\s*(const|let|var)\s+\w+\s*=\s*(async\s+)?\(
      Cat(<<Bol, Star(Space), Alt(<<Lit("const"), Lit("let"), Lit("var")>>), Plus(Space), Plus(Word), Star(Space), Lit("="), Star(Space), Lit("function")>>)  \* ^\s*(const|let|var)\s+\w+\s*=\s*function
    >>)
  @@ ("typescript" :> <<
      Cat(<<Bol, Star(Space), Opt(Cat(<<Lit("async"), Plus(Space)>>)), Lit("function"), Plus(Space), Plus(Word)>>),  \* ^\s*(async\s+)?function\s+\w+
      Cat(<<Bol, Star(Space), Lit("class"), Plus(Space), Plus(Word)>>),  \* ^\s*class\s+\w+
      Cat(<<Bol, Star(Space), Alt(<<Lit("const"), Lit("let"), Lit("var")>>), Plus(Space), Plus(Word), Star(Space), Lit("="), Star(Space), Opt(Cat(<<Lit("async"), Plus(Space)>>)), Lit("(")>>),  \* ^\s*(const|let|var)\s+\w+\s*=\s*(async\s+)?\(
      Cat(<<Bol, Star(Space), Opt(Cat(<<Lit("export"), Plus(Space)>>)), Alt(<<Lit("const"), Lit("let"), Lit("var")>>), Plus(Space), Plus(Word)>>)  \* ^\s*(export\s+)?(const|let|var)\s+\w+
    >>)
  @@ ("go" :> <<
      Cat(<<Bol, Star(Space), Lit("func"), Plus(Space)>>),  \* ^\s*func\s+
      Cat(<<Bol, Star(Space), Lit("type"), Plus(Space), Plus(Word), Plus(Space), Lit("struct")>>)  \* ^\s*type\s+\w+\s+struct
    >>)
  @@ ("rust" :> <<
      Cat(<<Bol, Star(Space), Opt(Cat(<<Lit("pub"), Plus(Space)>>)), Lit("fn"), Plus(Space)>>),  \* ^\s*(pub\s+)?fn\s+
      Cat(<<Bol, Star(Space), Opt(Cat(<<Lit("pub"), Plus(Space)>>)), Lit("struct"), Plus(Space)>>),  \* ^\s*(pub\s+)?struct\s+
      Cat(<<Bol, Star(Space), Opt(Cat(<<Lit("pub"), Plus(Space)>>)), Lit("impl"), Plus(Space)>>)  \* ^\s*(pub\s+)?impl\s+
    >>)
  @@ ("java" :> <<
      Cat(<<Bol, Star(Space), Opt(Cat(<<Lit("p"), Alt(<<Lit("ublic"), Lit("rivate"), Lit("rotected")>>)>>)), Star(Space), Opt(Lit("static")), Star(Space), Plus(Word), Plus(Space), Plus(Word), Star(Space), Lit("(")>>),  \* ^\s*(public|private|protected)?\s*(static)?\s*\w+\s+\w+\s*\(
      Cat(<<Bol, Star(Space), Opt(Cat(<<Lit("p"), Alt(<<Lit("ublic"), Lit("rivate"), Lit("rotected")>>)>>)), Star(Space), Opt(Lit("abstract")), Star(Space), Lit("class"), Plus(Space)>>)  \* ^\s*(public|private|protected)?\s*(abstract)?\s*class\s+
    >>)

\* DiffChunker.EXT_LANGUAGE_MAP, in dict order
EXT_LANGUAGE_MAP ==
  <<<<".py", "python">>, <<".js", "javascript">>, <<".jsx", "javascript">>, <<".ts", "typescript">>, <<".tsx", "typescript">>, <<".go", "go">>, <<".rs", "rust">>, <<".java", "java">>>>

\* DiffChunker.CHARS_PER_TOKEN
CHARS_PER_TOKEN == 4

\* the boundary patterns are compiled with re.MULTILINE
BoundaryFlags == ReFlags(FALSE, TRUE)

\* DiffChunker.__init__(max_tokens, overlap_lines)
DiffChunker(maxTokens, overlapLines) ==
  [max_tokens |-> maxTokens, max_chars |-> maxTokens * CHARS_PER_TOKEN,
   overlap_lines |-> overlapLines]

\* DiffChunker.estimate_tokens
estimate_tokens(text) == Len(text) \div CHARS_PER_TOKEN

\* DiffChunker.needs_chunking
needs_chunking(self, diff) == estimate_tokens(diff.raw_diff) > self.max_tokens

\* DiffChunker._detect_language: the first extension of the map the path ends with, "" for None
detect_language(file_path) ==
  LET hits == {k \in DOMAIN EXT_LANGUAGE_MAP : EndsWith(file_path, EXT_LANGUAGE_MAP[k][1])}
  IN IF hits = {} THEN ""
     ELSE EXT_LANGUAGE_MAP[CHOOSE k \in hits : \A j \in hits : k <= j][2]

\* content[:200]
First200(content) ==
  SubSeq(content, 1, IF Len(content) < 200 THEN Len(content) ELSE 200)

\* any(p.search(hunk.header) or p.search(hunk.content[:200]) for p in patterns)
BoundarySearch(language, header, content) ==
  \E k \in DOMAIN BOUNDARY_PATTERNS[language] :
     \/ re_search(BOUNDARY_PATTERNS[language][k], BoundaryFlags, header)
     \/ re_search(BOUNDARY_PATTERNS[language][k], BoundaryFlags, First200(content))

\* the hunk texts <<header, content>> the specifications below draw from
KnownHunkTexts ==
  {<<"", "@@ -1 +1 @@\n+x">>,
   <<"", "@@ -9 +9 @@\n-q\n+r">>,
   <<"def f():", "@@ -1 +1 @@ def f():\n+y = 1">>,
   <<"", "@@ -1,2 +1,2 @@\n class G:\n+  z = 2">>,
   <<"func h() {", "@@ -1 +1 @@ func h() {\n+a := 1">>,
   <<"", "@@ -1 +1,3 @@\n+def k(): return 1111111111\n+u = 22222222222222\n+v = 3">>}

\* BoundarySearch of the known hunk texts, evaluated once
BoundarySearchMemo ==
  [language \in DOMAIN BOUNDARY_PATTERNS |->
     [text \in KnownHunkTexts |-> BoundarySearch(language, text[1], text[2])]]

\* does the hunk start a semantic boundary of the language
starts_boundary(language, hunk) ==
  IF <<hunk.header, hunk.content>> \in KnownHunkTexts
  THEN BoundarySearchMemo[language][<<hunk.header, hunk.content>>]
  ELSE BoundarySearch(language, hunk.header, hunk.content)

RECURSIVE SumTokens(_)
\* sum(self.estimate_tokens(h.content) for h in hunks)
SumTokens(hunks) ==
  IF hunks = <<>> THEN 0
  ELSE estimate_tokens(hunks[1].content) + SumTokens(Tail(hunks))

RECURSIVE JoinRange(_, _, _, _)
\* sep.join(parts[lo-1:hi]), by halves
JoinRange(parts, sep, lo, hi) ==
  IF lo > hi THEN ""
  ELSE IF lo = hi THEN parts[lo]
  ELSE JoinRange(parts, sep, lo, (lo + hi) \div 2) \o sep
       \o JoinRange(parts, sep, (lo + hi) \div 2 + 1, hi)

\* sep.join(parts)
Join(parts, sep) == JoinRange(parts, sep, 1, Len(parts))

\* DiffChunker._create_chunk
create_chunk(file_path, hunks) ==
  [hunks |-> hunks, context_before |-> "", context_after |-> "", file_path |-> file_path,
   estimated_tokens |-> SumTokens(hunks)]

\* DiffChunker._groups_to_chunks
groups_to_chunks(self, file_path, groups) ==
  [i \in DOMAIN groups |->
     [hunks |-> groups[i],
      file_path |-> file_path,
      context_before |->
        IF i > 1 /\ groups[i - 1] # <<>>
        THEN LET prev_hunk == groups[i - 1][Len(groups[i - 1])]
                 lines == SplitLines(prev_hunk.content)
             IN Join(PySliceFrom(lines, 0 - self.overlap_lines), "\n")
        ELSE "",
      context_after |->
        IF i < Len(groups) /\ groups[i + 1] # <<>>
        THEN LET next_hunk == groups[i + 1][1]
                 lines == SplitLines(next_hunk.content)
             IN Join(PySliceTo(lines, self.overlap_lines), "\n")
        ELSE "",
      estimated_tokens |-> SumTokens(groups[i])]]

\* groups.append(current_group); current_group = []; current_tokens = 0
CloseGroup(acc) ==
  [groups |-> Append(acc.groups, acc.current_group),
   current_group |-> <<>>, current_tokens |-> 0]

\* the loop of _chunk_by_semantics closing a group at boundaries only
AddHunk_boundaries_only(self, acc, hunk, hunk_tokens) ==
  [groups |-> acc.groups,
   current_group |-> Append(acc.current_group, hunk),
   current_tokens |-> acc.current_tokens + hunk_tokens]

\* the size test of the loop of _chunk_by_semantics, then current_group.append(hunk)
AddHunk(self, acc, hunk, hunk_tokens) ==
  LET acc2 == IF acc.current_tokens + hunk_tokens > self.max_tokens /\ acc.current_group # <<>>
              THEN CloseGroup(acc) ELSE acc
  IN [groups |-> acc2.groups,
      current_group |-> Append(acc2.current_group, hunk),
      current_tokens |-> acc2.current_tokens + hunk_tokens]

\* one iteration of the loop of _chunk_by_semantics without the boundary test
SemanticsStep_ignores_boundaries(self, language, acc, hunk) ==
  AddHunk(self, acc, hunk, estimate_tokens(hunk.content))

\* one iteration of the loop of _chunk_by_semantics with every hunk taken for a boundary
SemanticsStep_every_hunk_a_boundary(self, language, acc, hunk) ==
  AddHunk(self, IF acc.current_group # <<>> THEN CloseGroup(acc) ELSE acc,
          hunk, estimate_tokens(hunk.content))

\* one iteration of the loop of _chunk_by_semantics; acc = [groups, current_group, current_tokens]
SemanticsStep(self, language, acc, hunk) ==
  AddHunk(self,
          IF starts_boundary(language, hunk) /\ acc.current_group # <<>>
          THEN CloseGroup(acc) ELSE acc,
          hunk, estimate_tokens(hunk.content))

RECURSIVE SemanticsLoop(_, _, _, _, _)
SemanticsLoop(self, language, hunks, k, acc) ==
  IF k > Len(hunks) THEN acc
  ELSE SemanticsLoop(self, language, hunks, k + 1, SemanticsStep(self, language, acc, hunks[k]))

\* if current_group: groups.append(current_group)
FlushGroup(acc) ==
  IF acc.current_group # <<>> THEN Append(acc.groups, acc.current_group) ELSE acc.groups

\* the loop of _chunk_by_semantics for a language with boundary patterns
semantic_groups(self, language, diff) ==
  FlushGroup(SemanticsLoop(self, language, diff.hunks, 1,
                           [groups |-> <<>>, current_group |-> <<>>, current_tokens |-> 0]))

\* if not language or language not in self._patterns: return None
has_patterns(language) == language # "" /\ language \in DOMAIN BOUNDARY_PATTERNS

\* DiffChunker._chunk_by_semantics; <<>> stands for both None and the empty list,
\* which chunk_diff treats alike
chunk_by_semantics(self, diff) ==
  IF ~has_patterns(detect_language(diff.path)) THEN <<>>
  ELSE groups_to_chunks(self, diff.path,
                        semantic_groups(self, detect_language(diff.path), diff))

\* one iteration of the loop of _chunk_by_hunks; acc = [chunks, current_hunks, current_tokens]
HunksStep(self, file_path, acc, hunk) ==
  LET hunk_tokens == estimate_tokens(hunk.content)
  IN IF hunk_tokens > self.max_tokens
     THEN [chunks |-> (IF acc.current_hunks # <<>>
                       THEN Append(acc.chunks, create_chunk(file_path, acc.current_hunks))
                       ELSE acc.chunks) \o <<create_chunk(file_path, <<hunk>>)>>,
           current_hunks |-> IF acc.current_hunks # <<>> THEN <<>> ELSE acc.current_hunks,
           current_tokens |-> IF acc.current_hunks # <<>> THEN 0 ELSE acc.current_tokens]
     ELSE LET acc1 == IF acc.current_tokens + hunk_tokens > self.max_tokens
                         /\ acc.current_hunks # <<>>
                      THEN [chunks |-> Append(acc.chunks,
                                              create_chunk(file_path, acc.current_hunks)),
                            current_hunks |-> <<>>, current_tokens |-> 0]
                      ELSE acc
          IN [chunks |-> acc1.chunks,
              current_hunks |-> Append(acc1.current_hunks, hunk),
              current_tokens |-> acc1.current_tokens + hunk_tokens]

RECURSIVE HunksLoop(_, _, _, _, _)
HunksLoop(self, file_path, hunks, k, acc) ==
  IF k > Len(hunks) THEN acc
  ELSE HunksLoop(self, file_path, hunks, k + 1, HunksStep(self, file_path, acc, hunks[k]))

\* _chunk_by_hunks without the final "if current_hunks" flush
chunk_by_hunks_no_flush(self, diff) ==
  HunksLoop(self, diff.path, diff.hunks, 1,
            [chunks |-> <<>>, current_hunks |-> <<>>, current_tokens |-> 0]).chunks

\* DiffChunker._chunk_by_hunks
chunk_by_hunks(self, diff) ==
  LET acc == HunksLoop(self, diff.path, diff.hunks, 1,
                       [chunks |-> <<>>, current_hunks |-> <<>>, current_tokens |-> 0])
  IN IF acc.current_hunks # <<>>
     THEN Append(acc.chunks, create_chunk(diff.path, acc.current_hunks))
     ELSE acc.chunks

\* "if chunks: return chunks", else the fallback
OrElse(chunks, fallback) == IF chunks # <<>> THEN chunks ELSE fallback

\* DiffChunker.chunk_diff
chunk_diff(self, diff) ==
  IF ~needs_chunking(self, diff)
  THEN <<[hunks |-> diff.hunks, context_before |-> "", context_after |-> "",
          file_path |-> diff.path, estimated_tokens |-> estimate_tokens(diff.raw_diff)]>>
  ELSE OrElse(chunk_by_semantics(self, diff), chunk_by_hunks(self, diff))

(***************************************************************************)
(* git_diff.py                                                             *)
(***************************************************************************)

DigitValue ==
  ("0" :> 0) @@ ("1" :> 1) @@ ("2" :> 2) @@ ("3" :> 3) @@ ("4" :> 4) @@
  ("5" :> 5) @@ ("6" :> 6) @@ ("7" :> 7) @@ ("8" :> 8) @@ ("9" :> 9)

RECURSIVE ParseInt(_)
\* int(s) of a string of decimal digits
ParseInt(s) ==
  IF Len(s) = 0 THEN 0
  ELSE 10 * ParseInt(SubSeq(s, 1, Len(s) - 1)) + DigitValue[SubSeq(s, Len(s), Len(s))]

\* the position after the longest run of digits of s that starts at i (\d+ is greedy)
DigitsEnd(s, i) ==
  CHOOSE j \in i..(Len(s) + 1) :
    /\ \A k \in i..(j - 1) : CharAt(s, k) \in DigitChars
    /\ CharAt(s, j) \notin DigitChars

\* s[i-1:j] of a Python string
Slice(s, i, j) ==
  SubSeq(s, i, IF j > Len(s) THEN Len(s) ELSE j)

\* str.strip()
Strip(s) ==
  LET keep == {i \in 1..Len(s) : SubSeq(s, i, i) \notin SpaceChars}
  IN IF keep = {} THEN ""
     ELSE SubSeq(s, CHOOSE i \in keep : \A j \in keep : i <= j,
                    CHOOSE i \in keep : \A j \in keep : i >= j)

\* FILE_HEADER.match(line).groups() for "^diff --git a/(.+) b/(.+)$", <<>> for no match;
\* the first group is greedy, so it ends at the last " b/" that leaves a second group
FileHeaderGroups(line) ==
  LET splits == {k \in 15..(Len(line) - 3) : SubSeq(line, k, k + 2) = " b/"}
  IN IF ~StartsWith(line, "diff --git a/") \/ splits = {} THEN <<>>
     ELSE LET k == CHOOSE x \in splits : \A y \in splits : x >= y
          IN <<SubSeq(line, 14, k - 1), SubSeq(line, k + 3, Len(line))>>

\* "(\d+)(?:,(\d+))?" at position i of line: [ok, first, second, next],
\* second = "" when the optional group took no part
RangeAt(line, i) ==
  LET e1 == DigitsEnd(line, i)
      e2 == DigitsEnd(line, e1 + 1)
      counted == CharAt(line, e1) = "," /\ e2 > e1 + 1
  IN [ok |-> e1 > i,
      first |-> SubSeq(line, i, e1 - 1),
      second |-> IF counted THEN SubSeq(line, e1 + 1, e2 - 1) ELSE "",
      next |-> IF counted THEN e2 ELSE e1]

\* the new-file range of a hunk header whose old-file range is old
NewRangeAt(line, old) ==
  IF old.ok /\ Slice(line, old.next, old.next + 1) = " +"
  THEN RangeAt(line, old.next + 2)
  ELSE [ok |-> FALSE, first |-> "", second |-> "", next |-> 0]

\* HUNK_HEADER.match(line) for "^@@ -(\d+)(?:,(\d+))? \+(\d+)(?:,(\d+))? @@(.*)$"
HunkHeaderMatch(line, old, new) ==
  /\ StartsWith(line, "@@ -")
  /\ old.ok
  /\ new.ok
  /\ Slice(line, new.next, new.next + 2) = " @@"

\* int(group or "1")
IntOr1(group) == IF group = "" THEN 1 ELSE ParseInt(group)

\* the DiffHunk that parse_diff starts at a hunk header
HunkOfHeader(line, old, new) ==
  [old_start |-> ParseInt(old.first), old_count |-> IntOr1(old.second),
   new_start |-> ParseInt(new.first), new_count |-> IntOr1(new.second),
   content |-> "",
   header |-> Strip(SubSeq(line, new.next + 3, Len(line)))]

\* parse_diff's "save previous hunk": the current file with the current hunk closed
WithHunkSaved(st) ==
  IF st.has_hunk
  THEN [st.current_file EXCEPT
          !.hunks = Append(@, [st.current_hunk EXCEPT !.content = Join(st.hunk_content, "\n")])]
  ELSE st.current_file

\* "save previous file" keeping only the files that have a hunk
WithFileSaved_hunkless_dropped(st) ==
  IF st.has_file /\ st.has_hunk THEN Append(st.files, WithHunkSaved(st)) ELSE st.files

\* parse_diff's "save previous file"
WithFileSaved(st) ==
  IF st.has_file THEN Append(st.files, WithHunkSaved(st)) ELSE st.files

\* current_file.raw_diff += line + "\n"
WithRawLine(st, line) ==
  IF st.has_file
  THEN [st EXCEPT !.current_file.raw_diff = @ \o line \o "\n"]
  ELSE st

\* the body of parse_diff's loop after the raw_diff update, for a line that is no file header
ParseBodyLine(st, line, old) ==
  IF StartsWith(line, "new file mode")
  THEN (IF st.has_file THEN [st EXCEPT !.current_file.status = "added"] ELSE st)
  ELSE IF StartsWith(line, "deleted file mode")
  THEN (IF st.has_file THEN [st EXCEPT !.current_file.status = "deleted"] ELSE st)
  ELSE IF StartsWith(line, "Binary files")
  THEN (IF st.has_file THEN [st EXCEPT !.current_file.is_binary = TRUE] ELSE st)
  ELSE IF StartsWith(line, "rename from ") /\ Len(line) > Len("rename from ")
  THEN (IF st.has_file
        THEN [st EXCEPT !.current_file.status = "renamed",
                        !.current_file.old_path = SubSeq(line, 13, Len(line))]
        ELSE st)
  ELSE IF HunkHeaderMatch(line, old, NewRangeAt(line, old))
  THEN [st EXCEPT !.current_file = IF st.has_file THEN WithHunkSaved(st) ELSE @,
                  !.has_hunk = TRUE,
                  !.current_hunk = HunkOfHeader(line, old, NewRangeAt(line, old)),
                  !.hunk_content = <<line>>]
  ELSE IF st.has_hunk
  THEN [st EXCEPT !.hunk_content = Append(@, line),
                  !.current_file.lines_added =
                     IF st.has_file /\ StartsWith(line, "+") /\ ~StartsWith(line, "+++")
                     THEN @ + 1 ELSE @,
                  !.current_file.lines_deleted =
                     IF st.has_file /\ ~(StartsWith(line, "+") /\ ~StartsWith(line, "+++"))
                        /\ StartsWith(line, "-") /\ ~StartsWith(line, "---")
                     THEN @ + 1 ELSE @]
  ELSE st

\* one iteration of parse_diff's loop;
\* st = [files, has_file, current_file, has_hunk, current_hunk, hunk_content]
ParseLine(st, line, groups) ==
  IF groups # <<>>
  THEN [files |-> WithFileSaved(st),
        has_file |-> TRUE,
        current_file |->
          [path |-> groups[2],
           old_path |-> IF groups[1] # groups[2] THEN groups[1] ELSE "",
           status |-> "modified", hunks |-> <<>>, lines_added |-> 0, lines_deleted |-> 0,
           is_binary |-> FALSE, raw_diff |-> line \o "\n"],
        has_hunk |-> FALSE,
        current_hunk |-> st.current_hunk,
        hunk_content |-> <<>>]
  ELSE ParseBodyLine(WithRawLine(st, line), line, RangeAt(line, 5))

RECURSIVE ParseLoop(_, _, _, _)
\* the loop of parse_diff over lines[lo-1:hi], by halves; the test on st.files has
\* the state of the first half evaluated before the second half is entered
ParseLoop(lines, lo, hi, st) ==
  IF lo > hi \/ Len(st.files) < 0 THEN st
  ELSE IF lo = hi THEN ParseLine(st, lines[lo], FileHeaderGroups(lines[lo]))
  ELSE ParseLoop(lines, (lo + hi) \div 2 + 1, hi,
                 ParseLoop(lines, lo, (lo + hi) \div 2, st))

\* a DiffHunk with no content yet
NoHunk ==
  [old_start |-> 0, old_count |-> 0, new_start |-> 0, new_count |-> 0,
   content |-> "", header |-> ""]

\* GitDiffParser.parse_diff; old_path "" stands for None
parse_diff(diff_output) ==
  WithFileSaved(ParseLoop(SplitLines(diff_output), 1, Len(SplitLines(diff_output)),
                          [files |-> <<>>, has_file |-> FALSE, current_file |-> NoDiff,
                           has_hunk |-> FALSE, current_hunk |-> NoHunk,
                           hunk_content |-> <<>>]))

(***************************************************************************)
(* agent.py: the pure helpers of CodeReviewAgent                           *)
(***************************************************************************)

\* Optional values: None and a present value
None == <<>>

Some(x) == <<x>>

\* the least index i >= from with s[i..] starting with sub, 0 when there is none
Find(s, sub, from) ==
  LET hits == {i \in from..(Len(s) - Len(sub) + 1) : SubSeq(s, i, i + Len(sub) - 1) = sub}
  IN IF hits = {} THEN 0 ELSE CHOOSE i \in hits : \A j \in hits : i <= j

\* re.search(open + "(.*?)" + close, s, re.DOTALL).group(1), None for no match
LazyGroup(s, open, close) ==
  LET i == Find(s, open, 1)
      j == Find(s, close, i + Len(open))
  IN IF i = 0 \/ j = 0 THEN None ELSE Some(SubSeq(s, i + Len(open), j - 1))

\* match.group(1).strip() if match else default
StripOr(group, default) ==
  IF group = None THEN default ELSE Some(Strip(group[1]))

\* re.search("<line>(\d+)</line>", s): int(group(1)), None for no match
LineNumber(s) ==
  LET hits == {i \in 1..(Len(s) - 5) :
                 /\ SubSeq(s, i, i + 5) = "<line>"
                 /\ DigitsEnd(s, i + 6) > i + 6
                 /\ Slice(s, DigitsEnd(s, i + 6), DigitsEnd(s, i + 6) + 6) = "</line>"}
  IN IF hits = {} THEN None
     ELSE LET i == CHOOSE x \in hits : \A y \in hits : x <= y
          IN Some(ParseInt(SubSeq(s, i + 6, DigitsEnd(s, i + 6) - 1)))

\* the opening tag of issue_pattern for one severity:
\* <issue\s+severity=['"]?(blocking|warning|suggestion)['"]?\s*>
IssueTag(severity) ==
  Cat(<<Lit("<issue"), Plus(Space), Lit("severity="), Opt(OneOf("'\"")), Lit(severity),
        Opt(OneOf("'\"")), Star(Space), Lit(">")>>)

\* issue_pattern is compiled with re.DOTALL only
IssueFlags == ReFlags(FALSE, FALSE)

\* the opening tags of issue_pattern that match at position i of s: <<severity, end>> pairs
TagsAt(s, i) ==
  UNION {{<<sev, e>> : e \in reMatch(IssueTag(sev), s, i, IssueFlags)} : sev \in IssueSeverity}

\* the first match of issue_pattern at or after from: [found, severity, content, next]
NextIssue(s, from) ==
  LET starts == {i \in from..Len(s) :
                   \E t \in TagsAt(s, i) : Find(s, "</issue>", t[2]) # 0}
  IN IF starts = {} THEN [found |-> FALSE, severity |-> "", content |-> "", next |-> 0]
     ELSE LET i == CHOOSE x \in starts : \A y \in starts : x <= y
              t == CHOOSE x \in TagsAt(s, i) : TRUE
              close == Find(s, "</issue>", t[2])
          IN [found |-> TRUE, severity |-> t[1],
              content |-> SubSeq(s, t[2], close - 1), next |-> close + Len("</issue>")]

\* the ReviewIssue that _parse_review_response builds of one match
IssueOfMatch(m, file_path) ==
  [severity |-> m.severity,
   message |-> StripOr(LazyGroup(m.content, "<message>", "</message>"), Some("Issue found"))[1],
   file_path |-> file_path,
   line_number |-> LineNumber(m.content),
   suggestion |-> StripOr(LazyGroup(m.content, "<suggestion>", "</suggestion>"), None)]

RECURSIVE IssuesFrom(_, _, _)
\* for match in issue_pattern.finditer(response)
IssuesFrom(response, from, file_path) ==
  IF ~NextIssue(response, from).found THEN <<>>
  ELSE <<IssueOfMatch(NextIssue(response, from), file_path)>>
       \o IssuesFrom(response, NextIssue(response, from).next, file_path)

\* CodeReviewAgent._parse_review_response
parse_review_response(response, file_path) ==
  [issues |-> IssuesFrom(response, 1, file_path),
   summary |-> StripOr(LazyGroup(response, "<summary>", "</summary>"),
                       Some("Review completed."))[1]]

\* the keywords of _issue_matches_principle
PrincipleKeywords ==
  {"error handling", "security", "sql injection", "validation", "authentication",
   "authorization", "logging", "testing", "documentation"}

\* CodeReviewAgent._issue_matches_principle
issue_matches_principle(issue, principle) ==
  \E keyword \in PrincipleKeywords :
     Contains(Lower(principle), keyword) /\ Contains(Lower(issue.message), keyword)

\* ReviewContext()
EmptyContext == [principles |-> <<>>, past_issues |-> <<>>, watch_rules |-> <<>>]

\* the lines _build_review_prompt adds for one list of the context; an entry is
\* [dict |-> TRUE, text |-> ...] or, for an object with neither the attribute nor .get,
\* [dict |-> FALSE, ...]
ContextLines(title, entries, limit) ==
  IF entries = <<>> THEN <<>>
  ELSE <<title>> \o [i \in DOMAIN PySliceTo(entries, limit) |-> "- " \o entries[i].text] \o <<"">>

\* the response format that ends every review prompt
ResponseFormat ==
  <<"", "Respond ONLY in this XML format:", "<response>", "  <issues>",
    "    <issue severity='blocking|warning|suggestion'>",
    "      <message>Description of the issue</message>",
    "      <line>Line number if applicable</line>",
    "      <suggestion>How to fix it</suggestion>", "    </issue>", "  </issues>",
    "  <summary>One sentence summary of this chunk</summary>", "</response>">>

\* does _build_review_prompt raise: r.get of a watch rule that is no dict
prompt_raises(context) ==
  \E i \in DOMAIN PySliceTo(context.watch_rules, 3) : ~context.watch_rules[i].dict

\* CodeReviewAgent._build_review_prompt
build_review_prompt(chunk, context) ==
  Join(<<"You are a code reviewer. Analyze the following diff and identify issues.",
         "Focus on: bugs, security issues, performance problems, and code quality.",
         "", "File: " \o chunk.file_path, "">>
       \o ContextLines("Project principles to check against:", context.principles, 5)
       \o ContextLines("Watch rules to enforce:", context.watch_rules, 3)
       \o ContextLines("Previously flagged issues in similar code (for context):",
                       context.past_issues, 3)
       \o (IF chunk.context_before # "" THEN <<"Context before:", chunk.context_before, "">>
           ELSE <<>>)
       \o <<"Changes to review:">>
       \o [i \in DOMAIN chunk.hunks |-> chunk.hunks[i].content]
       \o (IF chunk.context_after # "" THEN <<"", "Context after:", chunk.context_after>>
           ELSE <<>>)
       \o ResponseFormat,
       "\n")

\* a ReviewIssue; line_number and suggestion are Optional
ReviewIssue(severity, message, file_path, suggestion) ==
  [severity |-> severity, message |-> message, file_path |-> file_path,
   line_number |-> None, suggestion |-> suggestion]

\* a FileReviewResult
FileReviewResult(file_path, issues, summary) ==
  [file_path |-> file_path, issues |-> issues, summary |-> summary]

\* [i for i in issues if i.severity == severity]
WithSeverity(issues, severity) ==
  SelectSeq(issues, LAMBDA i : i.severity = severity)

\* the PrincipleViolations that _review_chunk records for one issue, matching the
\* principles of the context that the issue relates to
ViolationsOfIssue(issue, matching, file_path) ==
  [k \in DOMAIN matching |->
     [principle_id |-> matching[k].id, principle_content |-> matching[k].text,
      violation_description |-> issue.message, file_path |-> file_path,
      line_number |-> issue.line_number, severity |-> issue.severity]]

RECURSIVE ViolationsOf(_, _, _)
\* for issue in issues: for principle in context.principles: ...
ViolationsOf(issues, principles, file_path) ==
  IF issues = <<>> THEN <<>>
  ELSE ViolationsOfIssue(issues[1],
                         SelectSeq(principles,
                                   LAMBDA p : issue_matches_principle(issues[1], p.text)),
                         file_path)
       \o ViolationsOf(Tail(issues), principles, file_path)

\* tokens_used = len(prompt) // 4 + len(response) // 4
TokensUsed(prompt, response) == Len(prompt) \div 4 + Len(response) \div 4

\* "test" in d.path.lower()
IsTestPath(d) == Contains(Lower(d.path), "test")

\* "api" in d.path.lower() or "routes" in d.path.lower()
IsApiPath(d) == Contains(Lower(d.path), "api") \/ Contains(Lower(d.path), "routes")

\* d.path.endswith(".md") or "doc" in d.path.lower()
IsDocPath(d) == EndsWith(d.path, ".md") \/ Contains(Lower(d.path), "doc")

\* the significant source files of _synthesize_cross_file
SignificantSource(diffs) ==
  SelectSeq(diffs, LAMBDA d : ~IsTestPath(d) /\ total_lines_changed(d) > 20)

\* the missing-tests warning of _synthesize_cross_file
MissingTestsIssues(diffs) ==
  IF (\A i \in DOMAIN diffs : ~IsTestPath(diffs[i])) /\ SignificantSource(diffs) # <<>>
  THEN <<ReviewIssue("warning",
                     "No test changes detected for " \o ToString(Len(SignificantSource(diffs)))
                       \o " modified source file(s). Consider adding tests.",
                     "[cross-file]", Some("Add tests for the modified functionality"))>>
  ELSE <<>>

\* the documentation suggestion of _synthesize_cross_file
MissingDocsIssues(diffs) ==
  IF (\E i \in DOMAIN diffs : IsApiPath(diffs[i])) /\ (\A i \in DOMAIN diffs : ~IsDocPath(diffs[i]))
  THEN <<ReviewIssue("suggestion", "API changes detected without documentation updates.",
                     "[cross-file]", Some("Consider updating API documentation"))>>
  ELSE <<>>

\* _synthesize_cross_file up to its Reviewer pass: nothing without a Reviewer or with
\* fewer than two file results
structural_issues(llm, file_results, diffs) ==
  IF ~llm \/ Len(file_results) < 2 THEN <<>>
  ELSE MissingTestsIssues(diffs) \o MissingDocsIssues(diffs)

\* _synthesize_cross_file calling the Reviewer for two file results already
cross_file_pass_from_two_files(llm, file_results) ==
  llm /\ Len(file_results) >= 2

\* does _synthesize_cross_file call _llm_cross_file_analysis
cross_file_pass(llm, file_results) ==
  llm /\ Len(file_results) >= 2 /\ Len(file_results) >= 3

\* one line of the findings of the cross-file prompt
CrossFileLine(fr) ==
  "- " \o fr.file_path \o ": " \o
  (IF fr.issues # <<>>
   THEN Join([i \in DOMAIN PySliceTo(fr.issues, 3) |-> fr.issues[i].message], "; ")
   ELSE fr.summary)

\* the text of the cross-file prompt before the findings
CrossPromptHead ==
  "Analyze these code review findings for cross-file patterns:\n"
  \o "\n"

\* the text of the cross-file prompt after the findings
CrossPromptTail ==
  "\n"
  \o "\n"
  \o "Look for:\n"
  \o "1. Repeated issues across files (systematic problems)\n"
  \o "2. Inconsistent patterns between files\n"
  \o "3. Missing dependencies or integration issues\n"
  \o "\n"
  \o "Respond in XML format:\n"
  \o "<response>\n"
  \o "  <issues>\n"
  \o "    <issue severity='warning|suggestion'>\n"
  \o "      <message>Description of cross-file issue</message>\n"
  \o "      <suggestion>How to address it</suggestion>\n"
  \o "    </issue>\n"
  \o "  </issues>\n"
  \o "</response>\n"
  \o "\n"
  \o "If no cross-file issues found, respond with empty <issues></issues>."

\* the prompt of _llm_cross_file_analysis
cross_file_prompt(file_results) ==
  CrossPromptHead
  \o Join([i \in DOMAIN PySliceTo(file_results, 10) |-> CrossFileLine(file_results[i])], "\n")
  \o CrossPromptTail

RECURSIVE AllIssues_first_of_each_file(_)
\* all_issues collecting only the first issue of each file result
AllIssues_first_of_each_file(file_results) ==
  IF file_results = <<>> THEN <<>>
  ELSE PySliceTo(file_results[1].issues, 1) \o AllIssues_first_of_each_file(Tail(file_results))

RECURSIVE AllIssues(_)
\* for fr in file_results: all_issues.extend(fr.issues)
AllIssues(file_results) ==
  IF file_results = <<>> THEN <<>>
  ELSE file_results[1].issues \o AllIssues(Tail(file_results))

\* request_changes for more than this many warnings
WarningLimit == 3

\* the verdict of review(), of the blocking and the warning bucket
overall_assessment_lenient(blocking, warnings) ==
  IF blocking # <<>> THEN "request_changes"
  ELSE IF Len(warnings) > WarningLimit + 1 THEN "request_changes"
  ELSE IF warnings # <<>> THEN "needs_discussion"
  ELSE "approve"

\* the verdict of review(), of the blocking and the warning bucket
overall_assessment(blocking, warnings) ==
  IF blocking # <<>> THEN "request_changes"
  ELSE IF Len(warnings) > WarningLimit THEN "request_changes"
  ELSE IF warnings # <<>> THEN "needs_discussion"
  ELSE "approve"

\* mode_desc of _generate_summary
ModeDesc ==
  [staged |-> "staged changes", unstaged |-> "unstaged changes",
   branch |-> "branch changes", auto |-> "changes"]

\* CodeReviewAgent._generate_summary
generate_summary(file_results, blocking, warnings, mode, violations) ==
  Join(<<"Reviewed " \o ToString(Len(file_results)) \o " files with " \o ModeDesc[mode] \o ".">>
       \o (IF blocking # <<>>
           THEN <<"Found " \o ToString(Len(blocking)) \o " blocking issue(s) that must be fixed.">>
           ELSE <<>>)
       \o (IF warnings # <<>>
           THEN <<"Found " \o ToString(Len(warnings)) \o " warning(s) to consider.">>
           ELSE <<>>)
       \o (IF violations # <<>>
           THEN <<"Detected " \o ToString(Len(violations)) \o " principle violation(s).">>
           ELSE <<>>)
       \o (IF blocking = <<>> /\ warnings = <<>> THEN <<"No significant issues found.">>
           ELSE <<>>),
       " ")

RECURSIVE SumLinesChanged(_)
\* sum(d.total_lines_changed for d in all_diffs)
SumLinesChanged(diffs) ==
  IF diffs = <<>> THEN 0 ELSE total_lines_changed(diffs[1]) + SumLinesChanged(Tail(diffs))

\* an early ReviewResult that leaves files_skipped at the default of the dataclass
EarlyResult_none_skipped(summary, mode, files_skipped) ==
  [overall_assessment |-> "approve", summary |-> summary,
   blocking_issues |-> <<>>, warnings |-> <<>>, suggestions |-> <<>>,
   principle_violations |-> <<>>, file_results |-> <<>>, mode |-> mode,
   files_reviewed |-> 0, files_skipped |-> 0, total_lines_changed |-> 0,
   tokens_used |-> 0]

\* a ReviewResult with the defaults of the dataclass, as the early returns of review() build it;
\* review_duration_ms is wall-clock time and left out, estimated_cost_cents is
\* tokens_used times a fixed price and left out
EarlyResult(summary, mode, files_skipped) ==
  [overall_assessment |-> "approve", summary |-> summary,
   blocking_issues |-> <<>>, warnings |-> <<>>, suggestions |-> <<>>,
   principle_violations |-> <<>>, file_results |-> <<>>, mode |-> mode,
   files_reviewed |-> 0, files_skipped |-> files_skipped, total_lines_changed |-> 0,
   tokens_used |-> 0]

\* the ReviewResult of the buckets, computed by review() after synthesis
BucketsResult(blocking, warnings, suggestions, file_results, mode, violations, triage, tokens) ==
  [overall_assessment |-> overall_assessment(blocking, warnings),
   summary |-> generate_summary(file_results, blocking, warnings, mode, violations),
   blocking_issues |-> blocking, warnings |-> warnings, suggestions |-> suggestions,
   principle_violations |-> violations, file_results |-> file_results, mode |-> mode,
   files_reviewed |-> Len(triage.to_review), files_skipped |-> Len(triage.skipped),
   total_lines_changed |-> SumLinesChanged(triage.all_diffs),
   tokens_used |-> tokens]

\* review() from "Collect all issues" to its return
aggregate(all_issues, include_suggestions, file_results, mode, violations, triage, tokens) ==
  BucketsResult(WithSeverity(all_issues, "blocking"), WithSeverity(all_issues, "warning"),
                IF include_suggestions THEN WithSeverity(all_issues, "suggestion") ELSE <<>>,
                file_results, mode, violations, triage, tokens)

(***************************************************************************)
(* agent.py: the per-file review tasks of _review_files_parallel           *)
(***************************************************************************)

\* overlap_lines of the DiffChunker that CodeReviewAgent.__init__ builds
default_overlap_lines == 3

\* CodeReviewAgent.__init__; llm and memory tell whether a provider is configured
CodeReviewAgent(maxFiles, maxTokensPerChunk, parallelReviews, llm, memory) ==
  [max_files |-> maxFiles, parallel_reviews |-> parallelReviews,
   chunker |-> DiffChunker(maxTokensPerChunk, default_overlap_lines),
   llm |-> llm, memory |-> memory]

\* asyncio.Semaphore(value)
Semaphore(value) == [value |-> value, waiters |-> <<>>]

\* Semaphore.locked with every slot taken for free
locked_never(semaphore) == FALSE

\* Semaphore.locked
locked(semaphore) == semaphore.value = 0 \/ semaphore.waiters # <<>>

\* Semaphore.release: the slot goes to the first waiter, if any
released(semaphore, tasks) ==
  IF semaphore.waiters # <<>>
  THEN [semaphore |-> [semaphore EXCEPT !.waiters = Tail(@)],
        tasks |-> [tasks EXCEPT ![Head(semaphore.waiters)].state = "woken"]]
  ELSE [semaphore |-> [semaphore EXCEPT !.value = @ + 1], tasks |-> tasks]

(***************************************************************************)
(* CodeReviewAgent.review: the inputs                                      *)
(***************************************************************************)

\* git diff output: a critical file with two hunks
SectionAuth ==
  "diff --git a/auth/login.py b/auth/login.py\n--- a/auth/login.py\n"
  \o "+++ b/auth/login.py\n@@ -1,2 +1,3 @@ def login(user):\n x = 1\n+check(user)\n"
  \o "@@ -10 +11 @@\n-old\n+new\n"

\* git diff output: an endpoint file with 21 added lines
SectionApi ==
  "diff --git a/src/api/users.py b/src/api/users.py\n--- a/src/api/users.py\n"
  \o "+++ b/src/api/users.py\n@@ -1 +1,22 @@\n x\n+a\n+a\n+a\n+a\n+a\n+a\n+a\n+a\n+a\n"
  \o "+a\n+a\n+a\n+a\n+a\n+a\n+a\n+a\n+a\n+a\n+a\n+a\n"

\* git diff output: a small source file
SectionMain ==
  "diff --git a/src/main.py b/src/main.py\n--- a/src/main.py\n+++ b/src/main.py\n"
  \o "@@ -3 +3 @@\n-run()\n+run(1)\n"

\* git diff output: a lock file
SectionLock ==
  "diff --git a/package-lock.json b/package-lock.json\n--- a/package-lock.json\n"
  \o "+++ b/package-lock.json\n@@ -1 +1,2 @@\n {\n+\"v\": 1\n"

\* git diff output: a file with whitespace changes only
SectionFmt ==
  "diff --git a/src/fmt.py b/src/fmt.py\n--- a/src/fmt.py\n+++ b/src/fmt.py\n"
  \o "@@ -1,2 +1,2 @@\n-\n+  \n"

\* git diff output: a test file
SectionTest ==
  "diff --git a/tests/test_login.py b/tests/test_login.py\n"
  \o "--- a/tests/test_login.py\n+++ b/tests/test_login.py\n@@ -1 +1,2 @@\n t\n"
  \o "+assert ok\n"

\* the response of the tests' mock_llm
ResponseWarning ==
  "\n<issues>\n  <issue severity='warning'>\n"
  \o "    <message>Consider adding error handling</message>\n    <line>5</line>\n"
  \o "    <suggestion>Wrap in try/except block</suggestion>\n  </issue>\n</issues>\n"
  \o "<summary>Found one minor issue with error handling.</summary>\n"

\* the response of the tests' mock_llm_blocking_issue
ResponseBlocking ==
  "\n<issues>\n  <issue severity='blocking'>\n"
  \o "    <message>SQL injection vulnerability detected</message>\n"
  \o "    <line>10</line>\n    <suggestion>Use parameterized queries</suggestion>\n"
  \o "  </issue>\n</issues>\n<summary>Critical security issue found.</summary>\n"

\* a response without issues
ResponseClean ==
  "<issues></issues><summary>Looks good</summary>"

\* what the diff source prints for get_diff
RawDiffs ==
  {"", "not a diff\n",
   SectionLock,
   SectionAuth,
   SectionApi \o SectionAuth,
   SectionFmt \o SectionAuth,
   SectionFmt \o SectionApi \o SectionTest,
   SectionMain \o SectionLock \o SectionApi \o SectionAuth}

\* the outcomes of a call of the diff source: its output, or a git failure with "fatal"
GitOutcomes(outputs) ==
  {[fatal |-> FALSE, output |-> o] : o \in outputs} \cup {[fatal |-> TRUE, output |-> ""]}

\* what the diff source prints for get_file_list
FileLists == {"", "auth/login.py\n"}

\* the responses of the Reviewer
Responses == {ResponseWarning, ResponseBlocking, ResponseClean}

\* the answers of the Reviewer: a response, or a fault with its reason
ReviewerAnswers ==
  {[fault |-> FALSE, text |-> r] : r \in Responses}
  \cup {[fault |-> TRUE, text |-> "timeout"]}

\* the file paths that the responses are parsed for
ReviewPaths ==
  {"auth/login.py", "src/api/users.py", "src/main.py", "package-lock.json", "src/fmt.py",
   "tests/test_login.py", "[cross-file]"}

\* parse_review_response of the responses, evaluated once
ParsedMemo ==
  [response \in Responses, file_path \in ReviewPaths |->
     parse_review_response(response, file_path)]

\* parse_review_response, by the table where it has the entry
parsed_response(response, file_path) ==
  IF response \in Responses /\ file_path \in ReviewPaths
  THEN ParsedMemo[response, file_path]
  ELSE parse_review_response(response, file_path)

\* a context with one principle
PrincipleContext ==
  [principles |-> <<[dict |-> TRUE, text |-> "Prevent SQL injection", id |-> "0"]>>,
   past_issues |-> <<>>, watch_rules |-> <<>>]

\* a context whose watch rules are plain strings
BadRulesContext ==
  [principles |-> <<>>, past_issues |-> <<>>,
   watch_rules |-> <<[dict |-> FALSE, text |-> "no eval", id |-> ""] >>]

\* the answers of the context provider: a context, or a fault
ContextAnswers ==
  {[fault |-> FALSE, context |-> c] : c \in {PrincipleContext, BadRulesContext}}
  \cup {[fault |-> TRUE, context |-> EmptyContext]}

\* the workers of the largest pool
MaxWorkers == 2

\* a chunk budget that the sections above exceed
SmallChunkTokens == 12

\* an agent with a Reviewer and MaxWorkers workers
BaseAgent == CodeReviewAgent(20, 400, MaxWorkers, TRUE, FALSE)

\* the agents under review: the defaults of __init__, and BaseAgent with one setting changed
Agents ==
  {CodeReviewAgent(20, 400, 5, FALSE, FALSE), BaseAgent}
  \cup {[BaseAgent EXCEPT !.parallel_reviews = k] : k \in 0..MaxWorkers}
  \cup {[BaseAgent EXCEPT !.max_files = 2],
        [BaseAgent EXCEPT !.chunker = DiffChunker(SmallChunkTokens, default_overlap_lines)],
        [BaseAgent EXCEPT !.memory = TRUE],
        [BaseAgent EXCEPT !.llm = FALSE, !.memory = TRUE]}

\* all_diffs with the (to_review, skipped) that prioritize returned for it
TriageRecord(all_diffs, prioritizedDiffs) ==
  [all_diffs |-> all_diffs, to_review |-> prioritizedDiffs.to_review,
   skipped |-> prioritizedDiffs.skipped]

\* prioritize of the parsed diffs
TriageOf(all_diffs, maxFiles) == TriageRecord(all_diffs, prioritize(all_diffs, maxFiles))

\* Tier 1 of review(): parse_diff and prioritize
Triage(raw_diff, maxFiles) == TriageOf(parse_diff(raw_diff), maxFiles)

\* get_file_list: the stripped non-empty lines of the output
file_list(output) ==
  SelectSeq([i \in DOMAIN SplitLines(output) |-> Strip(SplitLines(output)[i])],
            LAMBDA f : f # "")

\* the task of one included file before it has run
NewTask ==
  [state |-> "pending", context |-> EmptyContext, chunks |-> <<>>, k |-> 0,
   issues |-> <<>>, chunk_summaries |-> <<>>,
   result |-> FileReviewResult("", <<>>, ""), error |-> ""]

\* the return of _review_single_file after its loop
finish(task, diff) ==
  [task EXCEPT !.state = "done",
               !.result = FileReviewResult(diff.path, task.issues,
                            IF task.chunk_summaries # <<>>
                            THEN Join(task.chunk_summaries, " ") ELSE "No issues found.")]

\* the exception that _build_review_prompt raises for a watch rule that is no dict
PromptError == "'str' object has no attribute 'get'"

\* the loop of _review_single_file from chunk task.k up to the next Reviewer call
next_chunk(agent, diff, task) ==
  IF task.k > Len(task.chunks) THEN finish(task, diff)
  ELSE IF ~agent.llm
  THEN finish([task EXCEPT !.k = Len(task.chunks) + 1,
                           !.chunk_summaries =
                              @ \o [i \in 1..(Len(task.chunks) - task.k + 1) |->
                                      "No LLM configured for review"]], diff)
  ELSE IF prompt_raises(task.context)
  THEN [task EXCEPT !.state = "failed", !.error = PromptError]
  ELSE [task EXCEPT !.state = "llm"]

\* _review_single_file reviewing the first chunk only
after_context_first_chunk_only(agent, diff, task, context) ==
  next_chunk(agent, diff,
             [task EXCEPT !.context = context,
                          !.chunks = PySliceTo(chunk_diff(agent.chunker, diff), 1),
                          !.k = 1])

\* _review_single_file from the return of _load_review_context
after_context(agent, diff, task, context) ==
  next_chunk(agent, diff,
             [task EXCEPT !.context = context, !.chunks = chunk_diff(agent.chunker, diff),
                          !.k = 1])

\* _review_single_file from its start up to the first call it awaits
run_file(agent, diff, task) ==
  IF is_formatting_only(diff)
  THEN [task EXCEPT !.state = "done",
                    !.result = FileReviewResult(diff.path, <<>>,
                                 "Formatting-only changes, skipped detailed review")]
  ELSE IF agent.memory THEN [task EXCEPT !.state = "context"]
  ELSE after_context(agent, diff, task, EmptyContext)

\* what _review_chunk returns for an answer of the Reviewer: [issues, summary, tokens];
\* answer = [fault, text], text the response or the reason of the fault
review_chunk_return(chunk, context, answer, parsed) ==
  IF answer.fault
  THEN [issues |-> <<ReviewIssue("warning", "LLM review failed: " \o answer.text,
                                 chunk.file_path, None)>>,
        summary |-> "Review incomplete due to error", tokens |-> 0,
        violations |-> <<>>]
  ELSE [issues |-> parsed.issues, summary |-> parsed.summary,
        tokens |-> TokensUsed(build_review_prompt(chunk, context), answer.text),
        violations |-> ViolationsOf(parsed.issues, context.principles, chunk.file_path)]

\* the task after _review_chunk has returned ret for chunk task.k, the issues of the
\* earlier chunks replaced
after_llm_last_chunk_only(agent, diff, task, ret) ==
  next_chunk(agent, diff,
             [task EXCEPT !.issues = ret.issues,
                          !.chunk_summaries = Append(@, ret.summary),
                          !.k = @ + 1])

\* the task after _review_chunk has returned ret for chunk task.k
after_llm(agent, diff, task, ret) ==
  next_chunk(agent, diff,
             [task EXCEPT !.issues = @ \o ret.issues,
                          !.chunk_summaries = Append(@, ret.summary),
                          !.k = @ + 1])

\* review_with_semaphore giving back its slot only when the file review returns
settled_failed_keeps_slot(i, t, semaphore, tasks) ==
  IF t.state = "done"
  THEN released(semaphore, [tasks EXCEPT ![i] = t])
  ELSE [semaphore |-> semaphore, tasks |-> [tasks EXCEPT ![i] = t]]

\* task i has run up to t: the slot is released when t has left "async with semaphore"
settled(i, t, semaphore, tasks) ==
  IF t.state \in {"done", "failed"}
  THEN released(semaphore, [tasks EXCEPT ![i] = t])
  ELSE [semaphore |-> semaphore, tasks |-> [tasks EXCEPT ![i] = t]]

\* the results of _review_files_parallel with the results of the failed tasks last
valid_results_successes_first(files, tasks) ==
  LET order == SelectSeq([i \in DOMAIN tasks |-> i], LAMBDA i : tasks[i].state # "failed")
               \o SelectSeq([i \in DOMAIN tasks |-> i], LAMBDA i : tasks[i].state = "failed")
  IN [k \in DOMAIN tasks |->
        IF tasks[order[k]].state = "failed"
        THEN FileReviewResult(files[order[k]].path,
                              <<ReviewIssue("warning", "Review failed: " \o tasks[order[k]].error,
                                            files[order[k]].path, None)>>,
                              "Review failed due to error")
        ELSE tasks[order[k]].result]

\* the results of _review_files_parallel after gather: an exception becomes a
\* result with one warning
valid_results(files, tasks) ==
  [i \in DOMAIN tasks |->
     IF tasks[i].state = "failed"
     THEN FileReviewResult(files[i].path,
                           <<ReviewIssue("warning", "Review failed: " \o tasks[i].error,
                                         files[i].path, None)>>,
                           "Review failed due to error")
     ELSE tasks[i].result]

(***************************************************************************)
(* State                                                                   *)
(***************************************************************************)

VARIABLES
  file_diff,        \* classify: the FileDiff passed in
  classification,   \* classify: the FileClassification returned ("" before the call)
  diffs,            \* prioritize: the list of FileDiff passed in
  max_files,        \* prioritize: the limit passed in
  prioritized,      \* prioritize: the returned (to_review, skipped), or <<>> before the call
  chunker,          \* chunk_diff: the DiffChunker (max_tokens, overlap_lines)
  chunked_diff,     \* chunk_diff: the FileDiff passed in
  chunks,           \* chunk_diff: <<the returned list of DiffChunk>>, or <<>> before the call
  diff_output,      \* parse_diff: the text passed in
  parsed,           \* parse_diff: <<the returned list of FileDiff>>, or <<>> before the call
  agent,            \* review: the CodeReviewAgent (its configuration)
  pc,               \* review: the call that review() is awaiting, "idle" before the call
  include_suggestions, \* review: the argument
  detected_mode,    \* review: the mode argument, resolved by _detect_mode when "auto"
  triage,           \* review: all_diffs and the (to_review, skipped) of prioritize
  semaphore,        \* _review_files_parallel: the semaphore
  tasks,            \* _review_files_parallel: the task of each file of to_review
  total_tokens,     \* self._total_tokens
  principle_violations, \* self._principle_violations
  file_results,     \* review: the file results that gather returned
  synthesis_issues, \* _synthesize_cross_file: synthesis_issues
  result,           \* review: Some(the ReviewResult returned), None before
  answers,          \* history: the answers of the Reviewer to each task, in order
  finished,         \* history: the tasks in the order they completed or failed
  requested_mode,   \* history: the mode argument of review
  listings,         \* history: the file lists that _detect_mode was given, in call order
  cross_answer,     \* history: Some(the answer of the Reviewer to the cross-file pass), or None
  invocations,      \* overlapping review() calls on one agent: the state of each call
  calls             \* history: the calls made to the context provider and the Reviewer

reviewVars == <<agent, pc, include_suggestions, detected_mode, triage, semaphore, tasks,
                total_tokens, principle_violations, file_results, synthesis_issues, result,
                answers, finished, requested_mode, listings, cross_answer, calls>>

vars == <<file_diff, classification, diffs, max_files, prioritized,
          chunker, chunked_diff, chunks, diff_output, parsed, reviewVars, invocations>>

classifyVars == <<file_diff, classification>>
prioritizeVars == <<diffs, max_files, prioritized>>
chunkVars == <<chunker, chunked_diff, chunks>>
parseVars == <<diff_output, parsed>>
overlapVars == <<invocations>>

\* the state of the harnesses that a specification does not use
ClassifyIdle == file_diff = NoDiff /\ classification = ""
PrioritizeIdle == diffs = <<>> /\ max_files = 0 /\ prioritized = <<>>
ChunkIdle == chunker = DiffChunker(0, 0) /\ chunked_diff = NoDiff /\ chunks = <<>>
ParseIdle == diff_output = "" /\ parsed = <<>>
OverlapIdle == invocations = <<>>

\* review() has not been called: the agent as __init__ leaves it
ReviewIdle ==
  /\ pc = "idle"
  /\ include_suggestions = TRUE
  /\ detected_mode = "auto"
  /\ triage = TriageRecord(<<>>, [to_review |-> <<>>, skipped |-> <<>>])
  /\ semaphore = Semaphore(0)
  /\ tasks = <<>>
  /\ total_tokens = 0
  /\ principle_violations = <<>>
  /\ file_results = <<>>
  /\ synthesis_issues = <<>>
  /\ result = None
  /\ answers = <<>>
  /\ finished = <<>>
  /\ requested_mode = "auto"
  /\ listings = <<>>
  /\ cross_answer = None
  /\ calls = [context |-> 0, reviewer |-> 0]

\* CodeReviewAgent() with the defaults of __init__
DefaultAgent == CodeReviewAgent(20, 400, 5, FALSE, FALSE)

(***************************************************************************)
(* classify applied to one FileDiff                                        *)
(***************************************************************************)

MaxLinesAdded == 52
MaxLinesDeleted == 1

ClassifyPaths ==
  {".env", ".env.local", "package-lock.json", "auth/yarn.lock", "vendor/config.py",
   "auth/test_login.py", "tests/settings.py", "api/README.md", "tests/api/test_u.py",
   "docs/guide.md", "src/api/users.py", "src/main.py", "Dockerfile", "requirements.txt",
   "notes.txt", "src/models/user_test.go", "Auth/Login.py", "dist/api/app.min.js"}

InitClassify ==
  /\ file_diff \in {make_diff(p, a, d, b) : p \in ClassifyPaths, a \in 0..MaxLinesAdded,
                                            d \in 0..MaxLinesDeleted, b \in BOOLEAN}
  /\ classification = ""
  /\ PrioritizeIdle
  /\ ChunkIdle
  /\ ParseIdle
  /\ agent = DefaultAgent
  /\ ReviewIdle
  /\ OverlapIdle

Classify ==
  /\ classification = ""
  /\ classification' = classify(file_diff)
  /\ UNCHANGED <<file_diff, prioritizeVars, chunkVars, parseVars, reviewVars, overlapVars>>

NextClassify == Classify

SpecClassify == InitClassify /\ [][NextClassify]_vars

\* The rules of classify, each as the set of files it applies to
Rule1Noise(d) == d.is_binary \/ searches(d.path).noise
Rule2Critical(d) == searches(d.path).critical_paths \/ searches(d.path).critical_files
Rule3TestOrDoc(d) == searches(d.path).tests \/ searches(d.path).docs
Rule4Business(d) == searches(d.path).important
BySize(d) == IF total_lines_changed(d) > important_threshold THEN "important" ELSE "minor"

\* C9: classify returns exactly one tier, that of the first rule that matches in the
\* order noise, critical, test or documentation (by size), business logic, size fallback
C9_ClassifyFirstMatchWins ==
  classification # "" =>
    /\ classification \in FileClassification
    /\ Rule1Noise(file_diff) => classification = "noise"
    /\ ~Rule1Noise(file_diff) /\ Rule2Critical(file_diff) => classification = "critical"
    /\ ~Rule1Noise(file_diff) /\ ~Rule2Critical(file_diff) /\ Rule3TestOrDoc(file_diff)
         => classification = BySize(file_diff)
    /\ ~Rule1Noise(file_diff) /\ ~Rule2Critical(file_diff) /\ ~Rule3TestOrDoc(file_diff)
         /\ Rule4Business(file_diff) => classification = "important"
    /\ ~Rule1Noise(file_diff) /\ ~Rule2Critical(file_diff) /\ ~Rule3TestOrDoc(file_diff)
         /\ ~Rule4Business(file_diff) => classification = BySize(file_diff)

\* a file that matches a noise rule and a critical rule has been classified
C9_Witness ==
  /\ classification = "noise"
  /\ Rule2Critical(file_diff)
  /\ total_lines_changed(file_diff) > important_threshold

(***************************************************************************)
(* prioritize applied to a list of FileDiff                                *)
(***************************************************************************)

MaxChanges == 4
MaxFilesLimit == 3

PrioritizeFiles ==
  {make_diff(".env", 1, 0, FALSE),
   make_diff("auth/login.py", 3, 2, FALSE),
   make_diff("src/api/users.py", 60, 0, FALSE),
   make_diff("src/big.py", 90, 10, FALSE),
   make_diff("src/api/small.py", 30, 30, FALSE),
   make_diff("src/api/tiny.py", 5, 0, FALSE),
   make_diff("src/main.py", 10, 0, FALSE),
   make_diff("docs/guide.md", 30, 0, FALSE),
   make_diff("package-lock.json", 1000, 0, FALSE),
   make_diff("logo.png", 0, 0, TRUE)}

\* the lists of at most n files
DiffLists(n) ==
  UNION {[1..k -> PrioritizeFiles] : k \in 0..n}

Distinct(l) == \A i, j \in DOMAIN l : i # j => l[i] # l[j]

InitPrioritize ==
  /\ diffs \in {l \in DiffLists(MaxChanges) : Distinct(l)}
  /\ max_files \in 0..MaxFilesLimit
  /\ prioritized = <<>>
  /\ ClassifyIdle
  /\ ChunkIdle
  /\ ParseIdle
  /\ agent = DefaultAgent
  /\ ReviewIdle
  /\ OverlapIdle

Prioritize ==
  /\ prioritized = <<>>
  /\ prioritized' = <<prioritize(diffs, max_files)>>
  /\ UNCHANGED <<diffs, max_files, classifyVars, chunkVars, parseVars, reviewVars, overlapVars>>

NextPrioritize == Prioritize

SpecPrioritize == InitPrioritize /\ [][NextPrioritize]_vars

\* how many times file d occurs in list l
Occurrences(l, d) == Cardinality({k \in DOMAIN l : l[k] = d})

CriticalCount == Cardinality({i \in DOMAIN diffs : classify(diffs[i]) = "critical"})

\* C7: prioritize partitions its input: every FileDiff is in exactly one of to_review and
\* skipped, exactly once; every critical file is in to_review, whatever max_files is, and
\* no noise file is
C7_PrioritizePartition ==
  prioritized # <<>> =>
    LET r == prioritized[1]
    IN /\ Len(r.to_review) + Len(r.skipped) = Len(diffs)
       /\ \A i \in DOMAIN diffs :
             Occurrences(r.to_review, diffs[i]) + Occurrences(r.skipped, diffs[i]) = 1
       /\ \A k \in DOMAIN r.to_review : \E i \in DOMAIN diffs : diffs[i] = r.to_review[k]
       /\ \A k \in DOMAIN r.skipped : \E i \in DOMAIN diffs : diffs[i] = r.skipped[k]
       /\ \A i \in DOMAIN diffs :
             classify(diffs[i]) = "critical" => Occurrences(r.to_review, diffs[i]) = 1
       /\ \A k \in DOMAIN r.to_review : classify(r.to_review[k]) # "noise"

\* prioritize has returned for a list with more critical files than max_files, an
\* important file and a noise file
C7_Witness ==
  /\ prioritized # <<>>
  /\ CriticalCount > max_files
  /\ max_files > 0
  /\ \E i \in DOMAIN diffs : classify(diffs[i]) = "noise"
  /\ \E i \in DOMAIN diffs : classify(diffs[i]) = "important"

\* C8: at most max(0, max_files - C) important and minor files are in to_review, C being
\* the number of critical files
C8_MaxFilesRespected ==
  prioritized # <<>> =>
    LET r == prioritized[1]
        budget == IF max_files - CriticalCount > 0 THEN max_files - CriticalCount ELSE 0
        admitted == {k \in DOMAIN r.to_review :
                       classify(r.to_review[k]) \in {"important", "minor"}}
    IN /\ Cardinality(admitted) <= budget
       /\ Len(r.to_review) <= (IF max_files > CriticalCount THEN max_files ELSE CriticalCount)

(***************************************************************************)
(* chunk_diff applied to one FileDiff                                      *)
(***************************************************************************)

MaxHunks == 3
MaxTokens == 12
MaxOverlapLines == 2

ChunkPaths == {"a.py", "b.go", "c.txt"}

\* the tests' make_hunk
make_hunk(content, old_start, header) ==
  LET lines == SplitLines(content)
      deleted == Cardinality({i \in DOMAIN lines : StartsWith(lines[i], "-")})
      added == Cardinality({i \in DOMAIN lines : StartsWith(lines[i], "+")})
  IN [old_start |-> old_start, old_count |-> IF deleted = 0 THEN 1 ELSE deleted,
      new_start |-> old_start, new_count |-> IF added = 0 THEN 1 ELSE added,
      content |-> content, header |-> header]

RECURSIVE HunkContents(_)
HunkContents(hunks) ==
  IF hunks = <<>> THEN "" ELSE hunks[1].content \o "\n" \o HunkContents(Tail(hunks))

\* the tests' make_diff_with_hunks
make_diff_with_hunks(path, hunks) ==
  [path |-> path, old_path |-> "", status |-> "modified", hunks |-> hunks,
   lines_added |-> 0, lines_deleted |-> 0, is_binary |-> FALSE,
   raw_diff |-> "diff --git a/" \o path \o " b/" \o path \o "\n" \o HunkContents(hunks)]

\* the lists of at most n hunk texts
HunkTextLists(n) ==
  UNION {[1..k -> KnownHunkTexts] : k \in 0..n}

\* the i-th hunk starts at line 100 * i, as in the tests
HunksOf(texts) ==
  [i \in DOMAIN texts |-> make_hunk(texts[i][2], 100 * i, texts[i][1])]

InitChunk ==
  /\ chunker \in {DiffChunker(m, o) : m \in 0..MaxTokens, o \in 0..MaxOverlapLines}
  /\ chunked_diff \in {make_diff_with_hunks(p, HunksOf(l)) :
                          p \in ChunkPaths, l \in HunkTextLists(MaxHunks)}
  /\ chunks = <<>>
  /\ ClassifyIdle
  /\ PrioritizeIdle
  /\ ParseIdle
  /\ agent = DefaultAgent
  /\ ReviewIdle
  /\ OverlapIdle

ChunkDiff ==
  /\ chunks = <<>>
  /\ chunks' = <<chunk_diff(chunker, chunked_diff)>>
  /\ UNCHANGED <<chunker, chunked_diff, classifyVars, prioritizeVars, parseVars, reviewVars, overlapVars>>

NextChunk == ChunkDiff

SpecChunk == InitChunk /\ [][NextChunk]_vars

RECURSIVE ConcatHunks(_)
\* the hunk lists of the chunks, one after the other
ConcatHunks(cs) ==
  IF cs = <<>> THEN <<>> ELSE cs[1].hunks \o ConcatHunks(Tail(cs))

\* C10: on every path of chunk_diff the hunk lists of the returned chunks, concatenated
\* in chunk order, are the hunk list of the FileDiff; the hunks being pairwise distinct,
\* each is then in exactly one chunk, once, and each chunk is a contiguous run
C10_ChunksPartitionHunks ==
  chunks # <<>> =>
    /\ ConcatHunks(chunks[1]) = chunked_diff.hunks
    /\ \A i, j \in DOMAIN chunked_diff.hunks :
          i # j => chunked_diff.hunks[i] # chunked_diff.hunks[j]

\* which path chunk_diff took
ChunkPath ==
  IF ~needs_chunking(chunker, chunked_diff) THEN "single"
  ELSE IF chunk_by_semantics(chunker, chunked_diff) # <<>> THEN "semantic"
  ELSE "size"

\* chunk_diff has split three hunks into at least two chunks on the semantic path
C10_Witness ==
  /\ chunks # <<>>
  /\ ChunkPath = "semantic"
  /\ Len(chunked_diff.hunks) = 3
  /\ Len(chunks[1]) = 2

\* the hunk's own estimated size exceeds max_tokens
Oversized(hunk) == estimate_tokens(hunk.content) > chunker.max_tokens

\* C11: when the file does not fit the budget, on the semantic and on the size path
\* alike, a hunk whose own estimated size exceeds max_tokens is the only hunk of its
\* chunk, and every hunk of a chunk is a whole hunk of the file, content included
C11_OversizedHunkAlone ==
  (chunks # <<>> /\ needs_chunking(chunker, chunked_diff)) =>
    \A c \in DOMAIN chunks[1] :
      \A h \in DOMAIN chunks[1][c].hunks :
        /\ Oversized(chunks[1][c].hunks[h]) => Len(chunks[1][c].hunks) = 1
        /\ \E k \in DOMAIN chunked_diff.hunks :
             chunked_diff.hunks[k] = chunks[1][c].hunks[h]

\* on the semantic path an oversized hunk between two smaller ones, the hunk after it
\* starting no boundary: three chunks, the oversized hunk alone in the second
C11_Witness ==
  /\ chunks # <<>>
  /\ ChunkPath = "semantic"
  /\ Len(chunked_diff.hunks) = 3
  /\ ~Oversized(chunked_diff.hunks[1])
  /\ Oversized(chunked_diff.hunks[2])
  /\ ~Oversized(chunked_diff.hunks[3])
  /\ ~starts_boundary(detect_language(chunked_diff.path), chunked_diff.hunks[2])
  /\ ~starts_boundary(detect_language(chunked_diff.path), chunked_diff.hunks[3])
  /\ Len(chunks[1]) = 3
  /\ chunks[1][2].hunks = <<chunked_diff.hunks[2]>>

(***************************************************************************)
(* CodeReviewAgent.review as a state machine: one action per stretch of    *)
(* code between two awaited calls of an external collaborator              *)
(***************************************************************************)

InitReview ==
  /\ agent \in Agents
  /\ ReviewIdle
  /\ OverlapIdle
  /\ ClassifyIdle
  /\ PrioritizeIdle
  /\ ChunkIdle
  /\ ParseIdle

\* review(mode, include_suggestions) up to its first awaited call
Review ==
  /\ pc = "idle"
  /\ \E mode \in ReviewMode, suggestions \in BOOLEAN :
       /\ include_suggestions' = suggestions
       /\ requested_mode' = mode
       /\ detected_mode' = mode
       /\ pc' = IF mode = "auto" THEN "detect_staged" ELSE "get_diff"
  /\ total_tokens' = 0
  /\ principle_violations' = <<>>
  /\ UNCHANGED <<agent, triage, semaphore, tasks, file_results, synthesis_issues, result,
                 answers, calls, finished, listings,
                 classifyVars, prioritizeVars, chunkVars, parseVars, overlapVars, cross_answer>>

\* _detect_mode: get_file_list(STAGED) returns or raises
DetectStaged ==
  /\ pc = "detect_staged"
  /\ \E git \in GitOutcomes(FileLists) :
       IF git.fatal THEN pc' = "raised" /\ UNCHANGED <<detected_mode, listings>>
       ELSE /\ listings' = Append(listings, file_list(git.output))
            /\ IF file_list(git.output) # <<>>
               THEN pc' = "get_diff" /\ detected_mode' = "staged"
               ELSE pc' = "detect_unstaged" /\ UNCHANGED detected_mode
  /\ UNCHANGED <<agent, include_suggestions, triage, semaphore, tasks, total_tokens,
                 principle_violations, file_results, synthesis_issues, result,
                 answers, calls, finished, classifyVars, prioritizeVars, chunkVars, parseVars, overlapVars, cross_answer,
                 requested_mode>>

\* _detect_mode returning UNSTAGED whatever get_file_list(UNSTAGED) returns
DetectUnstaged_no_branch ==
  /\ pc = "detect_unstaged"
  /\ \E git \in GitOutcomes(FileLists) :
       IF git.fatal THEN pc' = "raised" /\ UNCHANGED <<detected_mode, listings>>
       ELSE /\ pc' = "get_diff"
            /\ listings' = Append(listings, file_list(git.output))
            /\ detected_mode' = "unstaged"
  /\ UNCHANGED <<agent, include_suggestions, triage, semaphore, tasks, total_tokens,
                 principle_violations, file_results, synthesis_issues, result,
                 answers, calls, finished, classifyVars, prioritizeVars, chunkVars, parseVars, overlapVars, cross_answer,
                 requested_mode>>

\* _detect_mode: get_file_list(UNSTAGED) returns or raises
DetectUnstaged ==
  /\ pc = "detect_unstaged"
  /\ \E git \in GitOutcomes(FileLists) :
       IF git.fatal THEN pc' = "raised" /\ UNCHANGED <<detected_mode, listings>>
       ELSE /\ pc' = "get_diff"
            /\ listings' = Append(listings, file_list(git.output))
            /\ detected_mode' = IF file_list(git.output) # <<>> THEN "unstaged" ELSE "branch"
  /\ UNCHANGED <<agent, include_suggestions, triage, semaphore, tasks, total_tokens,
                 principle_violations, file_results, synthesis_issues, result,
                 answers, calls, finished, classifyVars, prioritizeVars, chunkVars, parseVars, overlapVars, cross_answer,
                 requested_mode>>

\* get_diff raises: review() raises
GetDiffRaises ==
  /\ pc = "get_diff"
  /\ pc' = "raised"
  /\ UNCHANGED <<agent, include_suggestions, detected_mode, triage, semaphore, tasks,
                 total_tokens, principle_violations, file_results, synthesis_issues, result,
                 answers, calls, finished, classifyVars, prioritizeVars, chunkVars, parseVars, overlapVars, cross_answer,
                 requested_mode, listings>>

\* get_diff returns nothing but white space: "No changes to review."
GetDiffEmpty ==
  /\ pc = "get_diff"
  /\ \E raw_diff \in RawDiffs :
       /\ Strip(raw_diff) = ""
       /\ result' = Some(EarlyResult("No changes to review.", detected_mode, 0))
  /\ pc' = "returned"
  /\ UNCHANGED <<agent, include_suggestions, detected_mode, triage, semaphore, tasks,
                 total_tokens, principle_violations, file_results, synthesis_issues,
                 answers, calls, finished, classifyVars, prioritizeVars, chunkVars, parseVars, overlapVars, cross_answer,
                 requested_mode, listings>>

\* get_diff returns a diff: Tier 1, then either the early return for nothing to review
\* or the creation of the tasks of _review_files_parallel
GetDiff ==
  /\ pc = "get_diff"
  /\ \E raw_diff \in RawDiffs :
       /\ Strip(raw_diff) # ""
       /\ triage' = Triage(raw_diff, agent.max_files)
  /\ IF triage'.to_review = <<>>
     THEN /\ result' = Some(EarlyResult(
               "No significant changes to review (all files filtered as noise).",
               detected_mode, Len(triage'.skipped)))
          /\ pc' = "returned"
          /\ UNCHANGED <<semaphore, tasks, answers>>
     ELSE /\ semaphore' = Semaphore(agent.parallel_reviews)
          /\ tasks' = [i \in DOMAIN triage'.to_review |-> NewTask]
          /\ answers' = [i \in DOMAIN triage'.to_review |-> <<>>]
          /\ pc' = "gather"
          /\ UNCHANGED result
  /\ UNCHANGED <<agent, include_suggestions, detected_mode, total_tokens,
                 principle_violations, file_results, synthesis_issues, calls,
                 finished, classifyVars, prioritizeVars, chunkVars, parseVars, overlapVars, cross_answer,
                 requested_mode, listings>>

\* the calls that task t is awaiting when it has just run
CallsWith(t) ==
  [context |-> calls.context + (IF t.state = "context" THEN 1 ELSE 0),
   reviewer |-> calls.reviewer + (IF t.state = "llm" THEN 1 ELSE 0)]

\* task i has run up to t
TaskRan(i, t, sem) ==
  /\ semaphore' = settled(i, t, sem, tasks).semaphore
  /\ tasks' = settled(i, t, sem, tasks).tasks
  /\ calls' = CallsWith(t)
  /\ finished' = IF t.state \in {"done", "failed"} THEN Append(finished, i) ELSE finished

\* the tasks start in the order gather created them in: the next one takes a slot and
\* runs up to its first awaited call, or queues at the semaphore
StartTask ==
  /\ pc = "gather"
  /\ \E i \in DOMAIN tasks :
       /\ tasks[i].state = "pending"
       /\ \A j \in 1..(i - 1) : tasks[j].state # "pending"
       /\ IF locked(semaphore)
          THEN /\ semaphore' = [semaphore EXCEPT !.waiters = Append(@, i)]
               /\ tasks' = [tasks EXCEPT ![i].state = "waiting"]
               /\ UNCHANGED <<calls, finished>>
          ELSE TaskRan(i, run_file(agent, triage.to_review[i], tasks[i]),
                       [semaphore EXCEPT !.value = @ - 1])
  /\ UNCHANGED <<agent, pc, include_suggestions, detected_mode, triage, total_tokens,
                 principle_violations, file_results, synthesis_issues, result, answers,
                 classifyVars, prioritizeVars, chunkVars, parseVars, overlapVars, cross_answer,
                 requested_mode, listings>>

\* a task that was handed a slot runs up to its first awaited call
Resume ==
  /\ pc = "gather"
  /\ \E i \in DOMAIN tasks :
       /\ tasks[i].state = "woken"
       /\ TaskRan(i, run_file(agent, triage.to_review[i], tasks[i]), semaphore)
  /\ UNCHANGED <<agent, pc, include_suggestions, detected_mode, triage, total_tokens,
                 principle_violations, file_results, synthesis_issues, result, answers,
                 classifyVars, prioritizeVars, chunkVars, parseVars, overlapVars, cross_answer,
                 requested_mode, listings>>

\* the context provider answers task i (its calls for one file are taken as one);
\* a fault gives the empty context
ContextReturn ==
  /\ pc = "gather"
  /\ \E i \in DOMAIN tasks, answer \in ContextAnswers :
       /\ tasks[i].state = "context"
       /\ TaskRan(i, after_context(agent, triage.to_review[i], tasks[i], answer.context),
                  semaphore)
  /\ UNCHANGED <<agent, pc, include_suggestions, detected_mode, triage, total_tokens,
                 principle_violations, file_results, synthesis_issues, result, answers,
                 classifyVars, prioritizeVars, chunkVars, parseVars, overlapVars, cross_answer,
                 requested_mode, listings>>

\* the Reviewer answers the call of task i for its chunk k, or faults
LlmReturned(i, answer, ret) ==
  /\ TaskRan(i, after_llm(agent, triage.to_review[i], tasks[i], ret), semaphore)
  /\ total_tokens' = total_tokens + ret.tokens
  /\ principle_violations' = principle_violations \o ret.violations
  /\ answers' = [answers EXCEPT ![i] = Append(@, answer)]

LlmReturn ==
  /\ pc = "gather"
  /\ \E i \in DOMAIN tasks, answer \in ReviewerAnswers :
       /\ tasks[i].state = "llm"
       /\ LlmReturned(i, answer,
                      review_chunk_return(tasks[i].chunks[tasks[i].k], tasks[i].context, answer,
                        parsed_response(answer.text, triage.to_review[i].path)))
  /\ UNCHANGED <<agent, pc, include_suggestions, detected_mode, triage, file_results,
                 synthesis_issues, result, classifyVars, prioritizeVars, chunkVars, parseVars, overlapVars, cross_answer,
                 requested_mode, listings>>

\* review() returns the ReviewResult of the file results and the synthesis issues
Returns(frs, synthesis, tokens) ==
  /\ result' = Some(aggregate(AllIssues(frs) \o synthesis, include_suggestions, frs,
                              detected_mode, principle_violations, triage, tokens))
  /\ pc' = "returned"

\* gather returns: the file results, the structural checks of Tier 3, and then
\* either the call of the cross-file pass or the return of review()
Gathered(frs, synthesis) ==
  /\ file_results' = frs
  /\ synthesis_issues' = synthesis
  /\ IF cross_file_pass(agent.llm, frs)
     THEN /\ pc' = "cross_file"
          /\ calls' = [calls EXCEPT !.reviewer = @ + 1]
          /\ UNCHANGED result
     ELSE /\ Returns(frs, synthesis, total_tokens)
          /\ UNCHANGED calls

\* gather returning with the first task that is over
Gather_first_completed ==
  /\ pc = "gather"
  /\ \E i \in DOMAIN tasks : tasks[i].state \in {"done", "failed"}
  /\ Gathered(valid_results(triage.to_review, tasks),
              structural_issues(agent.llm, valid_results(triage.to_review, tasks),
                                triage.to_review))
  /\ UNCHANGED <<agent, include_suggestions, detected_mode, triage, semaphore, tasks,
                 total_tokens, principle_violations, answers,
                 finished, classifyVars, prioritizeVars, chunkVars, parseVars, overlapVars, cross_answer,
                 requested_mode, listings>>

\* gather returns when every task is over
Gather ==
  /\ pc = "gather"
  /\ \A i \in DOMAIN tasks : tasks[i].state \in {"done", "failed"}
  /\ Gathered(valid_results(triage.to_review, tasks),
              structural_issues(agent.llm, valid_results(triage.to_review, tasks),
                                triage.to_review))
  /\ UNCHANGED <<agent, include_suggestions, detected_mode, triage, semaphore, tasks,
                 total_tokens, principle_violations, answers,
                 finished, classifyVars, prioritizeVars, chunkVars, parseVars, overlapVars, cross_answer,
                 requested_mode, listings>>

\* the Reviewer answers the cross-file pass, or faults
CrossFileReturn ==
  /\ pc = "cross_file"
  /\ \E answer \in ReviewerAnswers :
       /\ cross_answer' = Some(answer)
       /\ IF answer.fault
          THEN /\ UNCHANGED <<synthesis_issues, total_tokens>>
               /\ Returns(file_results, synthesis_issues, total_tokens)
          ELSE /\ synthesis_issues' = synthesis_issues
                    \o parsed_response(answer.text, "[cross-file]").issues
               /\ total_tokens' = total_tokens
                    + TokensUsed(cross_file_prompt(file_results), answer.text)
               /\ Returns(file_results, synthesis_issues', total_tokens')
  /\ UNCHANGED <<agent, include_suggestions, detected_mode, triage, semaphore, tasks,
                 principle_violations, file_results, answers, calls,
                 finished, classifyVars, prioritizeVars, chunkVars, parseVars, overlapVars,
                 requested_mode, listings>>

NextReview ==
  \/ Review
  \/ DetectStaged
  \/ DetectUnstaged
  \/ GetDiffRaises
  \/ GetDiffEmpty
  \/ GetDiff
  \/ StartTask
  \/ Resume
  \/ ContextReturn
  \/ LlmReturn
  \/ Gather
  \/ CrossFileReturn

SpecReview == InitReview /\ [][NextReview]_vars


(***************************************************************************)
(* CodeReviewAgent.review: properties                                      *)
(***************************************************************************)

\* review() has returned the ReviewResult of an aggregation (Tier 2 has run)
Aggregated == pc = "returned" /\ tasks # <<>>

\* review() has returned early, before Tier 2
ReturnedEarly == pc = "returned" /\ tasks = <<>>

\* the tasks that hold a slot of the semaphore
SlotHolders == {i \in DOMAIN tasks : tasks[i].state \in {"woken", "context", "llm"}}

\* the tasks whose call of the Reviewer is in flight
ReviewerCallers == {i \in DOMAIN tasks : tasks[i].state = "llm"}

\* the Reviewer faulted on some call of task i
Faulted(i) == \E k \in DOMAIN answers[i] : answers[i][k].fault

RECURSIVE ReturnedIssues(_, _)
\* the issues of the responses that the Reviewer gave for a file, in call order
ReturnedIssues(file_answers, file_path) ==
  IF file_answers = <<>> THEN <<>>
  ELSE parsed_response(Head(file_answers).text, file_path).issues
       \o ReturnedIssues(Tail(file_answers), file_path)

\* the issues of a file result that report a fault of the Reviewer
FaultIssues(file_result) ==
  SelectSeq(file_result.issues,
            LAMBDA issue : /\ issue.severity = "warning"
                           /\ StartsWith(issue.message, "LLM review failed: "))

\* C1: with K >= 1 workers, never more than K per-file pipelines hold a slot, and
\* never more than K calls of the Reviewer are in flight
C1_AtMostKInProgress ==
  agent.parallel_reviews >= 1 =>
    /\ Cardinality(SlotHolders) <= agent.parallel_reviews
    /\ Cardinality(ReviewerCallers) <= agent.parallel_reviews

\* K calls of the Reviewer are in flight and a further file queues at the semaphore
C1_Witness ==
  /\ agent.parallel_reviews >= 1
  /\ Cardinality(ReviewerCallers) = agent.parallel_reviews
  /\ \E i \in DOMAIN tasks : tasks[i].state = "waiting"

\* C2: whatever the order the tasks completed or failed in, file_results holds one
\* result per included file, the i-th being the result of the i-th file of to_review
C2_ResultsInTriageOrder ==
  Aggregated =>
    /\ Len(result[1].file_results) = Len(triage.to_review)
    /\ \A i \in DOMAIN triage.to_review :
         /\ result[1].file_results[i].file_path = triage.to_review[i].path
         /\ tasks[i].state = "done" => result[1].file_results[i] = tasks[i].result

\* a later file completed before an earlier one, and one file failed
C2_Witness ==
  /\ Aggregated
  /\ \E a, b \in DOMAIN finished : a < b /\ finished[a] > finished[b]
  /\ \E i \in DOMAIN tasks : tasks[i].state = "failed"

\* C3: review() raises only before Tier 2; a returned result has one file result per
\* included file, every chunk of a file with a Reviewer was put to the Reviewer, and
\* a file that was reviewed without a fault carries exactly the issues of its responses
C3_FaultsAreIsolated ==
  /\ pc = "raised" => tasks = <<>>
  /\ Aggregated =>
       /\ Len(result[1].file_results) = Len(triage.to_review)
       /\ \A i \in DOMAIN tasks :
            tasks[i].state = "done" =>
              /\ agent.llm => Len(answers[i]) = Len(tasks[i].chunks)
              /\ ~Faulted(i) =>
                   result[1].file_results[i].issues
                     = ReturnedIssues(answers[i], triage.to_review[i].path)

\* the Reviewer faulted on one file and another file carries the issues of its response
C3_Witness ==
  /\ Aggregated
  /\ \E i, j \in DOMAIN tasks :
       /\ Faulted(i)
       /\ tasks[j].state = "done" /\ ~Faulted(j)
       /\ result[1].file_results[j].issues # <<>>
       /\ result[1].file_results[j].issues
            = ReturnedIssues(answers[j], triage.to_review[j].path)

\* C4: a file on which the Reviewer faulted carries exactly one warning for the fault,
\* however many of its calls faulted
C4_OneFaultIssuePerFile ==
  Aggregated =>
    \A i \in DOMAIN tasks :
      Faulted(i) => Len(FaultIssues(result[1].file_results[i])) = 1

\* C5: the verdict of an aggregated result is request_changes with a blocking issue,
\* else request_changes with more than 3 warnings, else needs_discussion with 1 to 3
\* warnings, else approve
C5_VerdictTable ==
  Aggregated =>
    result[1].overall_assessment =
      IF Len(result[1].blocking_issues) > 0 THEN "request_changes"
      ELSE IF Len(result[1].warnings) > 3 THEN "request_changes"
      ELSE IF Len(result[1].warnings) >= 1 THEN "needs_discussion"
      ELSE "approve"

\* four warnings and no blocking issue: request_changes
C5_Witness ==
  /\ Aggregated
  /\ result[1].blocking_issues = <<>>
  /\ Len(result[1].warnings) = 4
  /\ result[1].overall_assessment = "request_changes"

\* C6: Tier 2 starts only with an included file; a review that returned before it
\* approves with no file reviewed, empty buckets and no call of the context provider
\* or the Reviewer, and reports a diff of noise files only as that many skipped files
C6_NothingToReview ==
  /\ pc \in {"gather", "cross_file"} => triage.to_review # <<>>
  /\ ReturnedEarly =>
       /\ triage.to_review = <<>>
       /\ result[1].overall_assessment = "approve"
       /\ result[1].files_reviewed = 0
       /\ result[1].file_results = <<>>
       /\ result[1].blocking_issues = <<>>
       /\ result[1].warnings = <<>>
       /\ result[1].suggestions = <<>>
       /\ calls = [context |-> 0, reviewer |-> 0]
       /\ (/\ triage.all_diffs # <<>>
           /\ \A k \in DOMAIN triage.all_diffs : classify(triage.all_diffs[k]) = "noise")
          => /\ result[1].files_skipped = Len(triage.all_diffs)
             /\ result[1].files_skipped >= 1

\* a diff of one lock file: returned early with one skipped file
C6_Witness ==
  /\ ReturnedEarly
  /\ Len(triage.all_diffs) = 1
  /\ classify(triage.all_diffs[1]) = "noise"
  /\ result[1].files_skipped = 1

(***************************************************************************)
(* parse_diff applied to one text                                          *)
(***************************************************************************)

MaxParseLines == 4

\* the lines the texts are made of: file headers, hunk headers, changed lines,
\* the "---"/"+++" markers and a rename marker
ParseLines ==
  {"diff --git a/f.py b/f.py", "diff --git a/old.py b/g.py",
   "@@ -1 +1,2 @@ def f():", "@@ -9,2 +9 @@",
   "+x", "-y", "+++ b/f.py", "--- a/f.py", "rename from old.py"}

\* the texts of at most n lines
ParseTexts(n) ==
  {Join(l, "\n") : l \in UNION {[1..k -> ParseLines] : k \in 0..n}}

InitParse ==
  /\ diff_output \in ParseTexts(MaxParseLines)
  /\ parsed = <<>>
  /\ ClassifyIdle
  /\ PrioritizeIdle
  /\ ChunkIdle
  /\ agent = DefaultAgent
  /\ ReviewIdle
  /\ OverlapIdle

ParseDiff ==
  /\ parsed = <<>>
  /\ parsed' = <<parse_diff(diff_output)>>
  /\ UNCHANGED <<diff_output, classifyVars, prioritizeVars, chunkVars, reviewVars, overlapVars>>

NextParse == ParseDiff

SpecParse == InitParse /\ [][NextParse]_vars

\* the positions of the file-header lines among lines, in input order
HeaderPositions(lines) ==
  LET at == {i \in DOMAIN lines : FileHeaderGroups(lines[i]) # <<>>}
  IN [k \in 1..Cardinality(at) |->
        CHOOSE i \in at : Cardinality({j \in at : j < i}) = k - 1]

\* the positions of the lines of the section of the k-th file header: the lines after
\* the header up to the next file header or the end of the text
SectionPositions(lines, heads, k) ==
  {i \in DOMAIN lines :
     /\ i > heads[k]
     /\ k < Len(heads) => i < heads[k + 1]}

\* does the line match HUNK_HEADER
IsHunkHeader(line) ==
  HunkHeaderMatch(line, RangeAt(line, 5), NewRangeAt(line, RangeAt(line, 5)))

\* the number of lines of the section of the k-th file header that start with mark
\* and not with the marker of three marks
CountMarked(lines, heads, k, mark) ==
  Cardinality({i \in SectionPositions(lines, heads, k) :
                 /\ StartsWith(lines[i], mark)
                 /\ ~StartsWith(lines[i], mark \o mark \o mark)})

\* the hunk-header lines of the section of the k-th file header, in input order
SectionHunkHeaders(lines, heads, k) ==
  LET at == {i \in SectionPositions(lines, heads, k) : IsHunkHeader(lines[i])}
  IN [n \in 1..Cardinality(at) |->
        lines[CHOOSE i \in at : Cardinality({j \in at : j < i}) = n - 1]]

\* C12: for any text, the lines_added (lines_deleted) of each FileDiff of parse_diff is
\* the number of lines of the file's section that start with "+" ("-") and not with
\* "+++" ("---")
C12_CountsMatchMarkedLines ==
  parsed # <<>> =>
    LET lines == SplitLines(diff_output)
        heads == HeaderPositions(lines)
    IN \A k \in DOMAIN parsed[1] :
         k \in DOMAIN heads =>
           /\ parsed[1][k].lines_added = CountMarked(lines, heads, k, "+")
           /\ parsed[1][k].lines_deleted = CountMarked(lines, heads, k, "-")

\* C13: parse_diff returns one FileDiff per file-header line, in input order, each with
\* the path of its header; the hunks of a FileDiff are the hunk headers of its section,
\* in order; a text without a file header yields the empty list, and a section without
\* a hunk header a FileDiff with no hunks; a hunk header before the first file header
\* is attached to no file
C13_OneFilePerHeader ==
  parsed # <<>> =>
    LET lines == SplitLines(diff_output)
        heads == HeaderPositions(lines)
    IN /\ Len(parsed[1]) = Len(heads)
       /\ \A k \in DOMAIN parsed[1] :
            LET headers == SectionHunkHeaders(lines, heads, k)
            IN /\ parsed[1][k].path = FileHeaderGroups(lines[heads[k]])[2]
               /\ Len(parsed[1][k].hunks) = Len(headers)
               /\ \A n \in DOMAIN parsed[1][k].hunks :
                    /\ SplitLines(parsed[1][k].hunks[n].content)[1] = headers[n]
                    /\ parsed[1][k].hunks[n].old_start
                         = ParseInt(RangeAt(headers[n], 5).first)

\* two files in input order, the first a pure rename without hunk, the second with
\* the hunk that follows its header
C13_Witness ==
  /\ parsed # <<>>
  /\ Len(parsed[1]) = 2
  /\ parsed[1][1].path = "g.py" /\ parsed[1][1].hunks = <<>>
  /\ parsed[1][1].status = "renamed"
  /\ parsed[1][2].path = "f.py" /\ Len(parsed[1][2].hunks) = 1
  /\ parsed[1][2].hunks[1].old_start = 9

(***************************************************************************)
(* CodeReviewAgent.review: mode resolution, synthesis, aggregation, phases *)
(***************************************************************************)

\* review() is past the resolution of its mode
ModeResolved == pc \in {"get_diff", "gather", "cross_file", "returned"}

\* C14: an auto mode is resolved to staged if the staged file list is non-empty, else
\* to unstaged if the unstaged file list is non-empty, else to branch; another mode is
\* used as it is, without a file list being asked for; the mode of the ReviewResult is
\* the resolved mode and never auto
C14_ModeResolution ==
  /\ ModeResolved =>
       /\ detected_mode =
            IF requested_mode # "auto" THEN requested_mode
            ELSE IF listings[1] # <<>> THEN "staged"
            ELSE IF listings[2] # <<>> THEN "unstaged"
            ELSE "branch"
       /\ requested_mode # "auto" => listings = <<>>
       /\ detected_mode # "auto"
  /\ pc = "returned" => result[1].mode = detected_mode

\* review(auto) with nothing staged and nothing unstaged returned a result of files
\* reviewed in branch mode
C14_Witness ==
  /\ Aggregated
  /\ requested_mode = "auto"
  /\ listings = <<<<>>, <<>>>>
  /\ result[1].mode = "branch"

\* the included files have a source file with more than 20 changed lines and no test file
SignificantSourceUntested ==
  /\ \E i \in DOMAIN triage.to_review :
       ~IsTestPath(triage.to_review[i]) /\ total_lines_changed(triage.to_review[i]) > 20
  /\ \A i \in DOMAIN triage.to_review : ~IsTestPath(triage.to_review[i])

\* the included files have an endpoint file and no documentation file
EndpointUndocumented ==
  /\ \E i \in DOMAIN triage.to_review : IsApiPath(triage.to_review[i])
  /\ \A i \in DOMAIN triage.to_review : ~IsDocPath(triage.to_review[i])

\* a cross-file issue of the severity whose message starts with the given words
HoldsCrossFileIssue(bucket, severity, words) ==
  \E n \in DOMAIN bucket :
    /\ bucket[n].severity = severity
    /\ bucket[n].file_path = "[cross-file]"
    /\ StartsWith(bucket[n].message, words)

\* C15: every aggregated result, with or without a Reviewer and for any number of
\* included files, holds the missing-tests warning when a significantly changed source
\* file comes with no test file, and (suggestions being included) the documentation
\* suggestion when an endpoint file comes with no documentation file
C15_StructuralChecksAlways ==
  Aggregated =>
    /\ SignificantSourceUntested =>
         HoldsCrossFileIssue(result[1].warnings, "warning", "No test changes detected")
    /\ (EndpointUndocumented /\ include_suggestions) =>
         HoldsCrossFileIssue(result[1].suggestions, "suggestion", "API changes detected")

\* every issue of the bucket is a ReviewIssue of the severity
BucketOf(bucket, severity) ==
  \A n \in DOMAIN bucket :
    /\ bucket[n].severity = severity
    /\ DOMAIN bucket[n] = {"severity", "message", "file_path", "line_number", "suggestion"}

\* the ReviewResult has every field, with a verdict, a resolved mode, buckets of the
\* right severity, a file result per reviewed file and counts that agree with triage
WellFormed(r) ==
  /\ DOMAIN r = {"overall_assessment", "summary", "blocking_issues", "warnings",
                 "suggestions", "principle_violations", "file_results", "mode",
                 "files_reviewed", "files_skipped", "total_lines_changed", "tokens_used"}
  /\ r.overall_assessment \in {"approve", "request_changes", "needs_discussion"}
  /\ r.mode \in ReviewMode \ {"auto"}
  /\ r.summary # ""
  /\ BucketOf(r.blocking_issues, "blocking")
  /\ BucketOf(r.warnings, "warning")
  /\ BucketOf(r.suggestions, "suggestion")
  /\ r.files_reviewed = Len(r.file_results)
  /\ r.files_reviewed = Len(triage.to_review)
  /\ r.files_skipped = Len(triage.skipped)
  /\ \A n \in DOMAIN r.file_results :
       /\ r.file_results[n].file_path = triage.to_review[n].path
       /\ \A k \in DOMAIN r.file_results[n].issues :
            r.file_results[n].issues[k].severity \in IssueSeverity
  /\ r.tokens_used >= 0
  /\ r.total_lines_changed >= 0

\* while the tasks run, one of them is about to run or awaits an answer, or all are over
TasksProceed ==
  \/ \E i \in DOMAIN tasks : tasks[i].state \in {"pending", "woken", "context", "llm"}
  \/ \A i \in DOMAIN tasks : tasks[i].state \in {"done", "failed"}

RECURSIVE AnsweredIssues(_, _)
\* the issues of the responses of the Reviewer for one file, in call order, its faults
\* left out
AnsweredIssues(file_answers, file_path) ==
  IF file_answers = <<>> THEN <<>>
  ELSE (IF Head(file_answers).fault THEN <<>>
        ELSE parsed_response(Head(file_answers).text, file_path).issues)
       \o AnsweredIssues(Tail(file_answers), file_path)

RECURSIVE AnsweredFrom(_)
\* the issues that the Reviewer returned for the files from the i-th on
AnsweredFrom(i) ==
  IF i > Len(answers) THEN <<>>
  ELSE AnsweredIssues(answers[i], triage.to_review[i].path) \o AnsweredFrom(i + 1)

\* the issues that the Reviewer returned for the chunks, and the synthesis issues
IssuesFound == AnsweredFrom(1) \o synthesis_issues

\* how many times the sequence holds x
Count(seq, x) == Cardinality({n \in DOMAIN seq : seq[n] = x})

\* the bucket of the result for a severity
Bucket(r, severity) ==
  IF severity = "blocking" THEN r.blocking_issues
  ELSE IF severity = "warning" THEN r.warnings
  ELSE r.suggestions

\* the three buckets of the result
Buckets(r) == r.blocking_issues \o r.warnings \o r.suggestions

\* an issue that reports a fault of a file review
IsFaultIssue(x) ==
  StartsWith(x.message, "LLM review failed: ") \/ StartsWith(x.message, "Review failed: ")

\* C17: with include_suggestions true, every issue that the Reviewer returned for a
\* chunk and every synthesis issue is in the result as many times as it was found, all
\* of them in the bucket of its severity, and the buckets hold nothing else but the
\* warnings for faults; a blocking issue found gives a non-empty blocking bucket and
\* the verdict request_changes
C17_NothingLostOrRebucketed ==
  (Aggregated /\ include_suggestions) =>
    /\ \A n \in DOMAIN IssuesFound :
         /\ Count(Buckets(result[1]), IssuesFound[n]) = Count(IssuesFound, IssuesFound[n])
         /\ Count(Bucket(result[1], IssuesFound[n].severity), IssuesFound[n])
              = Count(IssuesFound, IssuesFound[n])
    /\ \A n \in DOMAIN Buckets(result[1]) :
         ~IsFaultIssue(Buckets(result[1])[n]) => Count(IssuesFound, Buckets(result[1])[n]) >= 1
    /\ (\E n \in DOMAIN IssuesFound : IssuesFound[n].severity = "blocking") =>
         /\ result[1].blocking_issues # <<>>
         /\ result[1].overall_assessment = "request_changes"

\* the Reviewer returned the same warning for two chunks of a file and a blocking issue
\* for another file, and synthesis added its own issues
C17_Witness ==
  /\ Aggregated
  /\ include_suggestions
  /\ synthesis_issues # <<>>
  /\ \E n \in DOMAIN IssuesFound : Count(result[1].warnings, IssuesFound[n]) = 2
  /\ \E n \in DOMAIN IssuesFound :
       IssuesFound[n].severity = "blocking" /\ IssuesFound[n].file_path # "[cross-file]"
  /\ result[1].overall_assessment = "request_changes"

\* the phase that review() is in: 0 Idle, 1 ModeResolution, 2 Triage,
\* 3 ParallelFileReview, 4 CrossFileSynthesis, 5 Aggregated or raised
Phase(at) ==
  IF at = "idle" THEN 0
  ELSE IF at \in {"detect_staged", "detect_unstaged"} THEN 1
  ELSE IF at = "get_diff" THEN 2
  ELSE IF at = "gather" THEN 3
  ELSE IF at = "cross_file" THEN 4
  ELSE 5

\* every task of a file review is over
AllTasksOver == \A i \in DOMAIN tasks : tasks[i].state \in {"done", "failed"}

\* what holds in each phase: no task and no call before prioritize has returned, every
\* task over from synthesis on, no ReviewResult before the return
PhaseInvariant ==
  /\ Phase(pc) < 3 => /\ tasks = <<>>
                      /\ triage.all_diffs = <<>>
                      /\ calls = [context |-> 0, reviewer |-> 0]
  /\ tasks # <<>> => /\ triage.to_review # <<>>
                     /\ Len(tasks) = Len(triage.to_review)
  /\ Phase(pc) >= 4 => AllTasksOver
  /\ pc # "returned" => result = None

\* C18: review() goes through its phases in the order ModeResolution, Triage,
\* ParallelFileReview, CrossFileSynthesis, Aggregated and never back; no file review
\* starts before prioritize has returned, synthesis starts only when every task has
\* finished or failed, and from then on, while the buckets and the verdict are
\* computed, no task runs or writes to an issue list
C18_PhasesInOrder ==
  /\ []PhaseInvariant
  /\ [][/\ Phase(pc') >= Phase(pc)
        /\ Phase(pc) >= 4 => tasks' = tasks
        /\ pc' = "cross_file" => pc = "gather"
        /\ (pc' = "gather" /\ pc # "gather") => pc = "get_diff"]_vars

\* a review in auto mode went through every phase, the cross-file pass included
C18_Witness ==
  /\ Aggregated
  /\ requested_mode = "auto"
  /\ cross_file_pass(agent.llm, file_results)
  /\ AllTasksOver

\* the chunk summary that _review_chunk returns for an answer of the Reviewer
AnswerSummary(answer, file_path) ==
  IF answer.fault THEN "Review incomplete due to error"
  ELSE parsed_response(answer.text, file_path).summary

RECURSIVE AnswersUpTo(_)
\* the number of answers that the Reviewer gave to the tasks 1..i
AnswersUpTo(i) ==
  IF i = 0 THEN 0 ELSE Len(answers[i]) + AnswersUpTo(i - 1)

\* task i starts to run _review_single_file in this step
Starts(i) ==
  /\ tasks[i].state \in {"pending", "woken"}
  /\ tasks'[i].state \in {"context", "llm", "done", "failed"}

\* what holds of the calls of every task: the call awaited is the one for the chunk
\* after the chunks answered, a file review that is over has an answer for each of its
\* chunks and the chunk summaries, joined in call order, as its summary
CallsFollowChunks ==
  /\ \A i \in DOMAIN tasks :
       /\ tasks[i].state = "llm" =>
            /\ tasks[i].k = Len(answers[i]) + 1
            /\ tasks[i].k <= Len(tasks[i].chunks)
       /\ tasks[i].state = "done" =>
            /\ Len(answers[i]) = Len(tasks[i].chunks)
            /\ answers[i] # <<>> =>
                 tasks[i].result.summary
                   = Join([k \in DOMAIN answers[i] |->
                             AnswerSummary(answers[i][k], triage.to_review[i].path)], " ")
  /\ pc = "gather" =>
       calls.reviewer = AnswersUpTo(Len(tasks)) + Cardinality(ReviewerCallers)
  /\ Aggregated =>
       \A i \in DOMAIN tasks :
         tasks[i].state = "done" => result[1].file_results[i] = tasks[i].result

\* what holds of every step of task i: a formatting-only file is over at once, without
\* a call, a chunk or an issue; the chunks of another file are those of chunk_diff; a
\* call of the Reviewer is counted when the task comes to await it
StepFollowsChunks(i) ==
  /\ (Starts(i) /\ is_formatting_only(triage.to_review[i])) =>
       /\ tasks'[i].state = "done"
       /\ tasks'[i].chunks = <<>>
       /\ tasks'[i].result.file_path = triage.to_review[i].path
       /\ tasks'[i].result.issues = <<>>
       /\ calls' = calls
  /\ (Starts(i) /\ ~is_formatting_only(triage.to_review[i])) =>
       calls'.context = calls.context + (IF agent.memory THEN 1 ELSE 0)
  /\ tasks'[i].chunks # tasks[i].chunks =>
       tasks'[i].chunks = chunk_diff(agent.chunker, triage.to_review[i])
  /\ (tasks'[i].state = "llm" /\ (tasks[i].state # "llm" \/ answers'[i] # answers[i])) =>
       calls'.reviewer = calls.reviewer + 1

TierRank(d) ==
  LET c == classify(d)
  IN IF c = "critical" THEN 1 ELSE IF c = "important" THEN 2 ELSE IF c = "minor" THEN 3 ELSE 4

\* the index of file d in the diff handed to prioritize
DiffIndex(d) == CHOOSE i \in DOMAIN diffs : diffs[i] = d

\* C20: to_review holds the critical files first, in the order of the diff, then the
\* admitted important files and then the admitted minor files, each tier by descending
\* changed-line count with equal counts in the order of the diff; no admitted file of a
\* tier has a strictly smaller count than a skipped file of the same tier
C20_ToReviewOrdered ==
  prioritized # <<>> =>
    LET r == prioritized[1].to_review
        s == prioritized[1].skipped
    IN /\ \A a, b \in DOMAIN r : a < b =>
             /\ TierRank(r[a]) <= TierRank(r[b])
             /\ (TierRank(r[a]) = 1 /\ TierRank(r[b]) = 1) => DiffIndex(r[a]) < DiffIndex(r[b])
             /\ (TierRank(r[a]) = TierRank(r[b]) /\ TierRank(r[a]) \in {2, 3}) =>
                   \/ total_lines_changed(r[a]) > total_lines_changed(r[b])
                   \/ /\ total_lines_changed(r[a]) = total_lines_changed(r[b])
                      /\ DiffIndex(r[a]) < DiffIndex(r[b])
       /\ \A a \in DOMAIN r : \A k \in DOMAIN s :
             (TierRank(r[a]) = TierRank(s[k]) /\ TierRank(r[a]) \in {2, 3}) =>
               total_lines_changed(s[k]) <= total_lines_changed(r[a])

\* prioritize has returned a to_review with a critical file followed by two important
\* files of equal count, and has skipped a smaller important file
C20_Witness ==
  /\ prioritized # <<>>
  /\ LET r == prioritized[1].to_review
         s == prioritized[1].skipped
     IN /\ \E a \in DOMAIN r : TierRank(r[a]) = 1
        /\ \E a, b \in DOMAIN r :
             /\ a < b
             /\ TierRank(r[a]) = 2 /\ TierRank(r[b]) = 2
             /\ total_lines_changed(r[a]) = total_lines_changed(r[b])
        /\ \E k \in DOMAIN s : TierRank(s[k]) = 2

\* ---------------------------------------------------------------------------
\* DiffChunker: overlap, budget and grouping of the returned chunks
\* ---------------------------------------------------------------------------

RECURSIVE ChunkLines(_)
\* the lines of the hunks of a chunk, one hunk after the other
ChunkLines(hunks) ==
  IF hunks = <<>> THEN <<>> ELSE SplitLines(hunks[1].content) \o ChunkLines(Tail(hunks))

\* the last n lines of a list of lines, none for n = 0
LastLines(lines, n) ==
  SubSeq(lines, (IF n > Len(lines) THEN 0 ELSE Len(lines) - n) + 1, Len(lines))

\* the first n lines of a list of lines
FirstLines(lines, n) ==
  SubSeq(lines, 1, IF n > Len(lines) THEN Len(lines) ELSE n)

\* C21: when chunk_diff returns two or more chunks and overlap_lines is at least 1, every
\* chunk but the first has as context_before the last overlap_lines lines of the chunk
\* before it and every chunk but the last has as context_after the first overlap_lines
\* lines of the chunk after it, on the semantic and on the size path alike; the hunk
\* lists are those of the file
C21_AdjacentChunksOverlap ==
  (chunks # <<>> /\ Len(chunks[1]) >= 2 /\ chunker.overlap_lines >= 1) =>
    LET cs == chunks[1]
        n == chunker.overlap_lines
    IN /\ \A i \in 2..Len(cs) :
             cs[i].context_before = Join(LastLines(ChunkLines(cs[i - 1].hunks), n), "\n")
       /\ \A i \in 1..(Len(cs) - 1) :
             cs[i].context_after = Join(FirstLines(ChunkLines(cs[i + 1].hunks), n), "\n")
       /\ ConcatHunks(cs) = chunked_diff.hunks

\* how many lines a context text holds, none for the empty text
LineCount(text) == IF text = "" THEN 0 ELSE Len(SplitLines(text))

\* C27: for every overlap_lines N >= 0 the context_before and the context_after of every
\* returned chunk hold at most N lines each; with N = 0 both are empty
C27_ContextAtMostOverlapLines ==
  chunks # <<>> =>
    \A i \in DOMAIN chunks[1] :
      /\ LineCount(chunks[1][i].context_before) <= chunker.overlap_lines
      /\ LineCount(chunks[1][i].context_after) <= chunker.overlap_lines

\* ceil(charCount / 4)
CeilTokens(text) == (Len(text) + CHARS_PER_TOKEN - 1) \div CHARS_PER_TOKEN

\* C24: the token estimate of a text is ceil(charCount / 4); the file is chunked exactly
\* when that estimate of its raw text exceeds max_tokens, and otherwise chunk_diff
\* returns one chunk holding all of its hunks, with that estimate
C24_EstimateIsCeiling ==
  chunks # <<>> =>
    LET est == CeilTokens(chunked_diff.raw_diff)
    IN /\ est <= chunker.max_tokens =>
             chunks[1] = <<[hunks |-> chunked_diff.hunks, context_before |-> "",
                            context_after |-> "", file_path |-> chunked_diff.path,
                            estimated_tokens |-> est]>>
       /\ est > chunker.max_tokens =>
             chunks[1] = OrElse(chunk_by_semantics(chunker, chunked_diff),
                                chunk_by_hunks(chunker, chunked_diff))

\* the hunk lists of a list of chunks
HunkLists(cs) == [i \in DOMAIN cs |-> cs[i].hunks]

\* the FileDiff with the same hunks and raw text under an extension without language
WithoutLanguage(diff) == [diff EXCEPT !.path = "c.txt"]

\* no hunk of the file starts a boundary of the file's language
NoBoundaryFires ==
  \A k \in DOMAIN chunked_diff.hunks :
     ~starts_boundary(detect_language(chunked_diff.path), chunked_diff.hunks[k])

\* C25: for a file that needs chunking, of a language with boundary patterns of which
\* none fires on any of its hunks, the hunk lists of the chunks are those that chunk_diff
\* returns for the same hunks and raw text under an extension with no language mapping
C25_NoBoundaryIsSizeGrouping ==
  (/\ chunks # <<>>
   /\ needs_chunking(chunker, chunked_diff)
   /\ has_patterns(detect_language(chunked_diff.path))
   /\ NoBoundaryFires) =>
    HunkLists(chunks[1]) = HunkLists(chunk_diff(chunker, WithoutLanguage(chunked_diff)))

\* chunk_diff has split three hunks of a Python file, none starting a boundary, into a
\* chunk of two hunks and a chunk of one
C25_Witness ==
  /\ chunks # <<>>
  /\ chunked_diff.path = "a.py"
  /\ needs_chunking(chunker, chunked_diff)
  /\ NoBoundaryFires
  /\ Len(chunked_diff.hunks) = 3
  /\ Len(chunks[1]) = 2
  /\ Len(chunks[1][1].hunks) = 2

\* C26: every returned chunk of two or more hunks has a summed hunk estimate of at most
\* max_tokens, and a chunk whose sum exceeds max_tokens is one single oversized hunk; in
\* a file of a language with boundary patterns that needs chunking, a hunk that starts a
\* boundary is the first hunk of its chunk
C26_ChunksWithinBudget ==
  chunks # <<>> =>
    \A c \in DOMAIN chunks[1] :
      LET hunks == chunks[1][c].hunks
      IN /\ Len(hunks) >= 2 => SumTokens(hunks) <= chunker.max_tokens
         /\ SumTokens(hunks) > chunker.max_tokens =>
               (Len(hunks) = 1 /\ Oversized(hunks[1]))
         /\ (/\ needs_chunking(chunker, chunked_diff)
             /\ has_patterns(detect_language(chunked_diff.path))) =>
               \A h \in 2..Len(hunks) :
                 ~starts_boundary(detect_language(chunked_diff.path), hunks[h])

\* three hunks that together fit max_tokens, in a file that needs chunking: the third
\* starts a boundary and is alone in the second chunk, after a chunk of two hunks
C26_Witness ==
  /\ chunks # <<>>
  /\ needs_chunking(chunker, chunked_diff)
  /\ has_patterns(detect_language(chunked_diff.path))
  /\ Len(chunked_diff.hunks) = 3
  /\ SumTokens(chunked_diff.hunks) <= chunker.max_tokens
  /\ Len(chunks[1]) = 2
  /\ Len(chunks[1][1].hunks) = 2
  /\ starts_boundary(detect_language(chunked_diff.path), chunks[1][2].hunks[1])

\* ---------------------------------------------------------------------------
\* CodeReviewAgent._synthesize_cross_file: the cross-file pass of the Reviewer
\* ---------------------------------------------------------------------------

\* the cross-file pass has been answered by a fault and review() has returned
CrossFilePassFaulted ==
  pc = "returned" /\ cross_answer # None /\ cross_answer[1].fault

\* C22: the Reviewer is called for the cross-file pass only with a Reviewer configured
\* and at least 3 file results; when that call faults, review() returns the result of
\* the file results and the structural checks alone: the synthesis issues are those of
\* the structural checks and the result is the aggregate of the per-file issues and them
C22_CrossFilePassGuardedAndSwallowed ==
  /\ (pc = "cross_file" \/ cross_answer # None) =>
        (agent.llm /\ Len(file_results) >= 3)
  /\ CrossFilePassFaulted =>
        /\ synthesis_issues = MissingTestsIssues(triage.to_review)
                                \o MissingDocsIssues(triage.to_review)
        /\ result = Some(aggregate(AllIssues(file_results) \o synthesis_issues,
                                   include_suggestions, file_results, detected_mode,
                                   principle_violations, triage, total_tokens))
        /\ result[1].file_results = valid_results(triage.to_review, tasks)

\* the cross-file pass faulted after three file reviews that found issues, with
\* structural issues raised as well
C22_Witness ==
  /\ CrossFilePassFaulted
  /\ Len(file_results) = 3
  /\ synthesis_issues # <<>>
  /\ \E i \in DOMAIN file_results : file_results[i].issues # <<>>
  /\ result[1].warnings # <<>>

\* C23: every issue that cross-file synthesis adds to the result has severity warning
\* or suggestion, whatever the Reviewer answers in the cross-file pass: no issue of the
\* blocking bucket comes from synthesis
C23_SynthesisNeverBlocking ==
  Aggregated =>
    /\ \A n \in DOMAIN synthesis_issues :
          synthesis_issues[n].severity \in {"warning", "suggestion"}
    /\ \A n \in DOMAIN result[1].blocking_issues :
          result[1].blocking_issues[n].file_path # "[cross-file]"

\* ---------------------------------------------------------------------------
\* CodeReviewAgent.review: the result and the schedule of the file tasks
\* ---------------------------------------------------------------------------

RECURSIVE ViolationsOfAnswers(_, _, _)
\* the principle violations of the answers of the Reviewer for one file, in call order
ViolationsOfAnswers(file_answers, principles, file_path) ==
  IF file_answers = <<>> THEN <<>>
  ELSE (IF Head(file_answers).fault THEN <<>>
        ELSE ViolationsOf(parsed_response(Head(file_answers).text, file_path).issues,
                          principles, file_path))
       \o ViolationsOfAnswers(Tail(file_answers), principles, file_path)

RECURSIVE ViolationsInFileOrder(_)
\* the principle violations of the files from the i-th on, file after file: what the
\* schedule that runs the file tasks one after the other in triage order records
ViolationsInFileOrder(i) ==
  IF i > Len(answers) THEN <<>>
  ELSE ViolationsOfAnswers(answers[i], tasks[i].context.principles,
                           triage.to_review[i].path)
       \o ViolationsInFileOrder(i + 1)

RECURSIVE TokensOfAnswers(_, _, _)
\* the tokens of the answered Reviewer calls of task i from its k-th call on
TokensOfAnswers(i, k, file_answers) ==
  IF k > Len(file_answers) THEN 0
  ELSE (IF file_answers[k].fault THEN 0
        ELSE TokensUsed(build_review_prompt(tasks[i].chunks[k], tasks[i].context),
                        file_answers[k].text))
       + TokensOfAnswers(i, k + 1, file_answers)

RECURSIVE TokensInFileOrder(_)
TokensInFileOrder(i) ==
  IF i > Len(answers) THEN 0
  ELSE TokensOfAnswers(i, 1, answers[i]) + TokensInFileOrder(i + 1)

\* the tokens of the answered cross-file pass
CrossFileTokens ==
  IF cross_answer # None /\ ~cross_answer[1].fault
  THEN TokensUsed(cross_file_prompt(file_results), cross_answer[1].text)
  ELSE 0

\* C29: the result is that of the schedule which runs the file tasks one after the
\* other in triage order, whatever the schedule was: for the answers that the calls were
\* given, the principle violations are those of the files in triage order, file after
\* file, tokens_used is the sum over the answered calls, and the file results and the
\* buckets are those of the tasks in triage order
C29_ResultIndependentOfSchedule ==
  Aggregated =>
    /\ result[1].principle_violations = ViolationsInFileOrder(1)
    /\ result[1].tokens_used = TokensInFileOrder(1) + CrossFileTokens
    /\ result[1].file_results = valid_results(triage.to_review, tasks)
    /\ result[1].blocking_issues
         = WithSeverity(AllIssues(result[1].file_results) \o synthesis_issues, "blocking")
    /\ result[1].warnings
         = WithSeverity(AllIssues(result[1].file_results) \o synthesis_issues, "warning")

\* ---------------------------------------------------------------------------
\* CodeReviewAgent.review: termination
\* ---------------------------------------------------------------------------

\* review() is over: it has returned a ReviewResult or raised
ReviewOver == pc \in {"returned", "raised"}

\* every slot of the semaphore is back and no task waits for one
SlotsReleased ==
  semaphore.value = agent.parallel_reviews /\ semaphore.waiters = <<>>

\* C30: for every worker count K >= 0, review() is never stuck before it is over: while
\* gather is awaited, a file task can take a step (start, take the slot handed to it, or
\* get the answer of the call it awaits) or every task is over and gather returns; after
\* gather every task is over and every slot is released. The other calls that review()
\* awaits (the diff source, the cross-file pass) return or fault, and every step brings
\* a task or review() forward, so a run that is never stuck comes to its end
C30_ReviewTerminates ==
  /\ pc = "gather" => TasksProceed
  /\ (pc \in {"cross_file", "returned"} /\ tasks # <<>>) =>
        /\ \A i \in DOMAIN tasks : tasks[i].state \in {"done", "failed"}
        /\ SlotsReleased

(***************************************************************************)
(* Two review() calls that overlap on one CodeReviewAgent: the statements  *)
(* of review(), _review_single_file and _review_chunk that read or write   *)
(* self._total_tokens and self._principle_violations                       *)
(***************************************************************************)

\* the agent of the two calls: a Reviewer, a context provider and a chunk budget that
\* auth/login.py exceeds
OverlapAgent ==
  [BaseAgent EXCEPT !.memory = TRUE,
                    !.chunker = DiffChunker(SmallChunkTokens, default_overlap_lines)]

\* the chunks of the file that each call reviews
OverlapChunks == chunk_diff(OverlapAgent.chunker, parse_diff(SectionAuth)[1])

\* what _review_chunk returns for the chunk under the context with one principle, for
\* each answer of the Reviewer
ChunkReturns(chunk) ==
  {review_chunk_return(chunk, PrincipleContext, answer,
                       parsed_response(answer.text, chunk.file_path)) :
     answer \in ReviewerAnswers}

\* the returns of the _review_chunk calls of one review(): one for each chunk
InvocationReturns ==
  LET cs == OverlapChunks
  IN {rets \in [DOMAIN cs -> UNION {ChunkReturns(cs[k]) : k \in DOMAIN cs}] :
        \A k \in DOMAIN cs : rets[k] \in ChunkReturns(cs[k])}

\* a review() call before it starts: rets are the returns of its _review_chunk calls
NewInvocation(rets) ==
  [pc |-> "idle", rets |-> rets, k |-> 0, tokens_used |-> 0, principle_violations |-> <<>>]

InitOverlap ==
  /\ invocations \in [1..2 -> {NewInvocation(rets) : rets \in InvocationReturns}]
  /\ agent = OverlapAgent
  /\ ReviewIdle
  /\ ClassifyIdle
  /\ PrioritizeIdle
  /\ ChunkIdle
  /\ ParseIdle

\* the state of review() that the overlapping calls leave alone
overlapFrame ==
  <<agent, pc, include_suggestions, detected_mode, triage, semaphore, tasks, file_results,
    synthesis_issues, result, answers, finished, requested_mode, listings, cross_answer,
    calls, classifyVars, prioritizeVars, chunkVars, parseVars>>

\* review() starts: self._total_tokens = 0; self._principle_violations = []
OverlapReview(n) ==
  /\ invocations[n].pc = "idle"
  /\ total_tokens' = 0
  /\ principle_violations' = <<>>
  /\ invocations' = [invocations EXCEPT ![n].pc = "llm"]
  /\ UNCHANGED overlapFrame

\* a Reviewer call of invocation n returns: _review_chunk appends the violations and
\* _review_single_file adds the tokens
OverlapLlmReturn(n) ==
  /\ invocations[n].pc = "llm"
  /\ invocations[n].k < Len(invocations[n].rets)
  /\ total_tokens' = total_tokens + invocations[n].rets[invocations[n].k + 1].tokens
  /\ principle_violations' =
        principle_violations \o invocations[n].rets[invocations[n].k + 1].violations
  /\ invocations' = [invocations EXCEPT ![n].k = @ + 1]
  /\ UNCHANGED overlapFrame

\* review() returns ReviewResult(principle_violations=self._principle_violations,
\* tokens_used=self._total_tokens, ...)
OverlapReturn(n) ==
  /\ invocations[n].pc = "llm"
  /\ invocations[n].k = Len(invocations[n].rets)
  /\ invocations' = [invocations EXCEPT ![n].pc = "returned",
                                        ![n].tokens_used = total_tokens,
                                        ![n].principle_violations = principle_violations]
  /\ UNCHANGED <<total_tokens, principle_violations, overlapFrame>>

NextOverlap ==
  \E n \in 1..2 :
    \/ OverlapReview(n)
    \/ OverlapLlmReturn(n)
    \/ OverlapReturn(n)

SpecOverlap == InitOverlap /\ [][NextOverlap]_vars

RECURSIVE OwnTokens(_)
\* the tokens of the Reviewer calls of one invocation
OwnTokens(rets) ==
  IF rets = <<>> THEN 0 ELSE Head(rets).tokens + OwnTokens(Tail(rets))

RECURSIVE OwnViolations(_)
\* the principle violations of the Reviewer calls of one invocation, in call order
OwnViolations(rets) ==
  IF rets = <<>> THEN <<>> ELSE Head(rets).violations \o OwnViolations(Tail(rets))

\* C28: of two review() calls that overlap on one agent, each returns a ReviewResult
\* whose tokens_used and principle_violations are those of its own Reviewer calls, all
\* of them and none of the other call's
C28_OverlappingReviewsIsolated ==
  \A n \in DOMAIN invocations :
    invocations[n].pc = "returned" =>
      /\ invocations[n].tokens_used = OwnTokens(invocations[n].rets)
      /\ invocations[n].principle_violations = OwnViolations(invocations[n].rets)

====
